---- MODULE Spec2Model ----
(***************************************************************************)
(* Receipt Extraction Engine (PYTHON/multi_model_receipt_processor.py and  *)
(* its base class PYTHON/improved_receipt_processor.py).                   *)
(*                                                                         *)
(* Text is a TLA+ string; a character is a string of length 1.  A position *)
(* is the 1-based index of the next character to read, so that a match of  *)
(* s[i..j-1] starts at i and ends at j.  Amounts of money are integers in  *)
(* cents.  Confidences in [0,1] are integers in units of 1/Scale, and OCR  *)
(* token confidences are integers in [-1,100] as the OCR collaborator      *)
(* reports them; arithmetic on them is exact.                              *)
(***************************************************************************)
EXTENDS Integers, Sequences, FiniteSets, TLC

(***************************************************************************)
(* Characters and Python's str methods.                                    *)
(***************************************************************************)
LowerStr == "abcdefghijklmnopqrstuvwxyz"
UpperStr == "ABCDEFGHIJKLMNOPQRSTUVWXYZ"
DigitStr == "0123456789"

CharsOf(str) == {SubSeq(str, i, i) : i \in 1..Len(str)}

LOWER == CharsOf(LowerStr)
UPPER == CharsOf(UpperStr)
DIGIT == CharsOf(DigitStr)
ALPHA == LOWER \cup UPPER
WORD  == ALPHA \cup DIGIT \cup {"_"}
SPACE == {" ", "\t"}

LowerMap == [c \in UPPER |-> LET i == CHOOSE k \in 1..26 : SubSeq(UpperStr, k, k) = c
                             IN  SubSeq(LowerStr, i, i)]
UpperMap == [c \in LOWER |-> LET i == CHOOSE k \in 1..26 : SubSeq(LowerStr, k, k) = c
                             IN  SubSeq(UpperStr, i, i)]

At(s, i) == SubSeq(s, i, i)

LowerChar(c) == IF c \in UPPER THEN LowerMap[c] ELSE c
UpperChar(c) == IF c \in LOWER THEN UpperMap[c] ELSE c

RECURSIVE StrLower(_)
\* str.lower()
StrLower(s) == IF s = "" THEN "" ELSE LowerChar(At(s, 1)) \o StrLower(Tail(s))

RECURSIVE StrStrip(_)
\* str.strip(): drops leading and trailing whitespace
StrStrip(s) ==
    IF s = "" THEN ""
    ELSE IF At(s, 1) \in SPACE THEN StrStrip(Tail(s))
    ELSE IF At(s, Len(s)) \in SPACE THEN StrStrip(SubSeq(s, 1, Len(s) - 1))
    ELSE s

\* sum(1 for c in s if c.isalpha())
AlphaCount(s) == Cardinality({i \in 1..Len(s) : At(s, i) \in ALPHA})

\* needle in haystack
Contains(hay, needle) ==
    \E i \in 1..(Len(hay) - Len(needle) + 1) : SubSeq(hay, i, i + Len(needle) - 1) = needle

RECURSIVE SplitFrom(_, _, _)
\* str.split(): the maximal runs of non-whitespace characters, in order
SplitFrom(s, i, cur) ==
    IF i > Len(s) THEN (IF cur = "" THEN <<>> ELSE <<cur>>)
    ELSE IF At(s, i) \in SPACE
         THEN (IF cur = "" THEN <<>> ELSE <<cur>>) \o SplitFrom(s, i + 1, "")
         ELSE SplitFrom(s, i + 1, cur \o At(s, i))

StrSplit(s) == SplitFrom(s, 1, "")

RECURSIVE StrJoin(_)
\* ' '.join(words)
StrJoin(words) ==
    IF words = <<>> THEN ""
    ELSE IF Len(words) = 1 THEN words[1]
    ELSE words[1] \o " " \o StrJoin(Tail(words))

(***************************************************************************)
(* Regular expressions of Python's re module, as syntax trees, matched by  *)
(* backtracking: Ends(r, s, i, ic) is the sequence of the positions where  *)
(* a match of r that starts at i can end, in the order in which the        *)
(* backtracking matcher tries them.  ic is re.IGNORECASE.                  *)
(***************************************************************************)
Lit(str)        == [t |-> "lit", s |-> str]
Set(chars)      == [t |-> "set", s |-> chars]
NSet(chars)     == [t |-> "nset", s |-> chars]
AnyChar         == [t |-> "any"]
Cat(rs)         == [t |-> "cat", a |-> rs]
Alt(rs)         == [t |-> "alt", a |-> rs]
Rep(r, lo, hi)  == [t |-> "rep", r |-> r, lo |-> lo, hi |-> hi]
Bol             == [t |-> "bol"]
Eol             == [t |-> "eol"]
WordB           == [t |-> "wb"]
Ahead(r)        == [t |-> "ahead", r |-> r]

Inf == -1
Star(r) == Rep(r, 0, Inf)
Plus(r) == Rep(r, 1, Inf)
Opt(r)  == Rep(r, 0, 1)
\* (a|b|c) over literal strings
Words(strs) == Alt([k \in 1..Len(strs) |-> Lit(strs[k])])

InSet(c, chars, ic) ==
    \/ c \in chars
    \/ ic /\ (LowerChar(c) \in chars \/ UpperChar(c) \in chars)

IsWordAt(s, i) == i >= 1 /\ i <= Len(s) /\ At(s, i) \in WORD

RECURSIVE Ends(_, _, _, _)
RECURSIVE CatEnds(_, _, _, _, _)
RECURSIVE AltEnds(_, _, _, _, _)
RECURSIVE RepEnds(_, _, _, _, _)
RECURSIVE EachEnd(_, _, _, _, _, _)
RECURSIVE EachRep(_, _, _, _, _, _)

Ends(r, s, i, ic) ==
    CASE r.t = "lit" ->
            LET n == Len(r.s)
            IN  IF i + n - 1 <= Len(s)
                   /\ (IF ic THEN StrLower(SubSeq(s, i, i + n - 1)) = StrLower(r.s)
                             ELSE SubSeq(s, i, i + n - 1) = r.s)
                THEN <<i + n>> ELSE <<>>
      [] r.t = "set"  -> IF i <= Len(s) /\ InSet(At(s, i), r.s, ic) THEN <<i + 1>> ELSE <<>>
      [] r.t = "nset" -> IF i <= Len(s) /\ ~InSet(At(s, i), r.s, ic) THEN <<i + 1>> ELSE <<>>
      [] r.t = "any"  -> IF i <= Len(s) THEN <<i + 1>> ELSE <<>>
      [] r.t = "bol"  -> IF i = 1 THEN <<i>> ELSE <<>>
      [] r.t = "eol"  -> IF i = Len(s) + 1 THEN <<i>> ELSE <<>>
      [] r.t = "wb"   -> IF IsWordAt(s, i - 1) # IsWordAt(s, i) THEN <<i>> ELSE <<>>
      [] r.t = "ahead" -> IF Ends(r.r, s, i, ic) # <<>> THEN <<i>> ELSE <<>>
      [] r.t = "cat"  -> CatEnds(r.a, 1, s, i, ic)
      [] r.t = "alt"  -> AltEnds(r.a, 1, s, i, ic)
      [] r.t = "rep"  -> RepEnds(r, 0, s, i, ic)

\* for each end e of es (from the k-th on), the ends of rs[n..] started at e
EachEnd(es, k, rs, n, s, ic) ==
    IF k > Len(es) THEN <<>>
    ELSE CatEnds(rs, n, s, es[k], ic) \o EachEnd(es, k + 1, rs, n, s, ic)

CatEnds(rs, n, s, i, ic) ==
    IF n > Len(rs) THEN <<i>>
    ELSE EachEnd(Ends(rs[n], s, i, ic), 1, rs, n + 1, s, ic)

AltEnds(rs, n, s, i, ic) ==
    IF n > Len(rs) THEN <<>>
    ELSE Ends(rs[n], s, i, ic) \o AltEnds(rs, n + 1, s, i, ic)

\* greedy repetition: one more iteration is tried before stopping
EachRep(es, k, r, done, s, ic) ==
    IF k > Len(es) THEN <<>>
    ELSE RepEnds(r, done, s, es[k], ic)
         \o EachRep(es, k + 1, r, done, s, ic)

RepEnds(r, done, s, i, ic) ==
    (IF r.hi = Inf \/ done < r.hi
     \* an iteration that consumes nothing is not repeated
     THEN EachRep(SelectSeq(Ends(r.r, s, i, ic), LAMBDA e : e > i), 1, r, done + 1, s, ic)
     ELSE <<>>)
    \o (IF done >= r.lo THEN <<i>> ELSE <<>>)

\* re.match(r, s) is not None
ReMatch(r, s, ic) == Ends(r, s, 1, ic) # <<>>

\* re.search(r, s) is not None
ReSearch(r, s, ic) == \E i \in 1..(Len(s) + 1) : Ends(r, s, i, ic) # <<>>

Last(seq) == seq[Len(seq)]

\* the boundaries found, or else the ones of the next attempt
OrElse(found, next) == IF found # <<>> THEN found ELSE next
\* position i in front of the boundaries that follow it, when there are any
Onto(i, rest) == IF rest = <<>> THEN <<>> ELSE <<i>> \o rest

RECURSIVE FirstBounds(_, _, _, _, _)
RECURSIVE TryEnds(_, _, _, _, _, _)
\* A pattern with capture groups is a sequence of segments (each a group or the
\* text between groups).  FirstBounds is <<i, e1, ..., en>>, the segment boundaries
\* of the match the backtracking matcher finds at i, or <<>> when there is none.
TryEnds(es, k, segs, n, s, ic) ==
    IF k > Len(es) THEN <<>>
    ELSE OrElse(FirstBounds(segs, n, s, es[k], ic), TryEnds(es, k + 1, segs, n, s, ic))

FirstBounds(segs, n, s, i, ic) ==
    IF n > Len(segs) THEN <<i>>
    ELSE Onto(i, TryEnds(Ends(segs[n], s, i, ic), 1, segs, n + 1, s, ic))

RECURSIVE SearchFrom(_, _, _, _)
\* re.search / one step of the scan of findall and sub: the boundaries of the
\* leftmost match starting at or after i, or <<>>
SearchFrom(segs, s, i, ic) ==
    IF i > Len(s) + 1 THEN <<>>
    ELSE OrElse(FirstBounds(segs, 1, s, i, ic), SearchFrom(segs, s, i + 1, ic))

\* where the scan goes on after a match from b to e
NextPos(b, e) == IF e > b THEN e ELSE b + 1

RECURSIVE FindAllFrom(_, _, _, _, _)
RECURSIVE FoundAt(_, _, _, _, _)
\* re.findall(pattern, s) of a pattern whose only group is segment g: the texts
\* of that group in the successive non-overlapping matches
FindAllFrom(segs, g, s, i, ic) == FoundAt(SearchFrom(segs, s, i, ic), segs, g, s, ic)

\* the group of the match of boundaries b, and the ones of the matches after it
FoundAt(b, segs, g, s, ic) ==
    IF b = <<>> THEN <<>>
    ELSE <<SubSeq(s, b[g], b[g + 1] - 1)>>
         \o FindAllFrom(segs, g, s, NextPos(b[1], Last(b)), ic)

ReFindAll(segs, g, s) == FindAllFrom(segs, g, s, 1, FALSE)

RECURSIVE SubFrom(_, _, _, _, _, _)
RECURSIVE SubAt(_, _, _, _, _, _, _)
\* re.sub(pattern, repl, s, count): count = 0 replaces every match
SubFrom(segs, repl, s, i, left, ic) ==
    SubAt(IF left = 0 THEN <<>> ELSE SearchFrom(segs, s, i, ic), segs, repl, s, i, left, ic)

\* the text from i on with the match of boundaries b, and the matches after it,
\* replaced
SubAt(b, segs, repl, s, i, left, ic) ==
    IF b = <<>> THEN SubSeq(s, i, Len(s))
    ELSE SubSeq(s, i, b[1] - 1) \o repl
         \o (IF Last(b) > b[1] THEN "" ELSE SubSeq(s, b[1], b[1]))
         \o SubFrom(segs, repl, s, NextPos(b[1], Last(b)), left - 1, ic)

ReSub(segs, repl, s, count) ==
    SubFrom(segs, repl, s, 1, IF count = 0 THEN -1 ELSE count, FALSE)

(***************************************************************************)
(* Numbers.                                                                *)
(***************************************************************************)
DigitVal(c) == CHOOSE d \in 0..9 : SubSeq(DigitStr, d + 1, d + 1) = c

RECURSIVE IntOf(_, _)
\* int(digits), accumulated left to right
IntOf(str, acc) ==
    IF str = "" THEN acc ELSE IntOf(Tail(str), 10 * acc + DigitVal(At(str, 1)))

\* the amount written with the digits d...d.dd, in cents
CentsOfDigits(digits) ==
    100 * IntOf(SubSeq(digits, 1, Len(digits) - 3), 0)
    + IntOf(SubSeq(digits, Len(digits) - 1, Len(digits)), 0)

\* float(match.replace(',', '').replace('$', '').strip()) of a text
\* d{1,4}(,ddd)*.dd, in cents
CentsOf(str) == CentsOfDigits(ReSub(<<Set({",", "$"})>>, "", StrStrip(str), 0))

RECURSIVE SortedSeq(_)
\* sorted(list(set(values)))
SortedSeq(set) ==
    IF set = {} THEN <<>>
    ELSE LET m == CHOOSE x \in set : \A y \in set : x <= y
         IN  <<m>> \o SortedSeq(set \ {m})

Range(seq) == {seq[k] : k \in 1..Len(seq)}

(***************************************************************************)
(* ImprovedReceiptProcessor.__init__: pattern tables.                      *)
(***************************************************************************)
D      == Set(DIGIT)
Sp     == Set(SPACE)
Dollar == Lit("$")
\* \d{1,4}(?:,\d{3})*\.\d{2}
Amount == Cat(<<Rep(D, 1, 4), Star(Cat(<<Lit(","), Rep(D, 3, 3)>>)), Lit("."), Rep(D, 2, 2)>>)
\* \d+\.\d{2}
Decimal2 == Cat(<<Plus(D), Lit("."), Rep(D, 2, 2)>>)
\* \d+(?:\.\d+)?
Number == Cat(<<Plus(D), Opt(Cat(<<Lit("."), Plus(D)>>))>>)

\* self.price_patterns; group 1 of each is the segment numbered grp
price_patterns == <<
    [segs |-> <<Cat(<<Dollar, Star(Sp)>>), Amount>>, grp |-> 2],
    [segs |-> <<Amount, Cat(<<Star(Sp), Dollar>>)>>, grp |-> 1],
    [segs |-> <<Amount, Ahead(Alt(<<Sp, Eol, NSet(DIGIT \cup {"."})>>))>>, grp |-> 1] >>

\* self.merchant_indicators
merchant_indicators == <<
    "walmart", "target", "costco", "safeway", "kroger", "publix", "whole foods",
    "mcdonald", "starbucks", "subway", "kfc", "pizza", "burger", "taco bell",
    "home depot", "lowes", "best buy", "amazon", "apple store", "microsoft",
    "cvs", "walgreens", "rite aid", "pharmacy", "dollar", "family dollar",
    "shell", "exxon", "bp", "chevron", "mobil", "gas", "fuel",
    "restaurant", "cafe", "deli", "market", "store", "shop" >>

\* (\d+(?:\.\d+)?)\s*<sign>\s*\$?(\d+\.\d{2}): groups 1 and 2 are segments 1 and 3
Priced(sign) ==
    [segs |-> <<Number, Cat(<<Star(Sp), Lit(sign), Star(Sp), Opt(Dollar)>>), Decimal2>>,
     g1 |-> 1, g2 |-> 3]
\* (\d+(?:\.\d+)?)\s*(unit|unit|...)
Counted(units) == [segs |-> <<Number, Star(Sp), Words(units)>>, g1 |-> 1, g2 |-> 3]

\* self.quantity_patterns; g2 = 0 when the pattern has one group only
quantity_patterns == <<
    Priced("x"),
    Priced("@"),
    [segs |-> <<Cat(<<Lit("qty"), Star(Sp)>>), Number>>, g1 |-> 2, g2 |-> 0],
    Counted(<<"ea", "each", "pc", "pcs">>),
    Counted(<<"lb", "lbs", "oz", "kg", "g">>) >>

SegsOf(patterns) == [k \in 1..Len(patterns) |-> patterns[k].segs]

(***************************************************************************)
(* MultiModelReceiptProcessor._initialize_enhanced_patterns and            *)
(* _load_knowledge_base.                                                   *)
(***************************************************************************)
enhanced_price_patterns == price_patterns \o <<
    [segs |-> <<Decimal2,
                Ahead(Cat(<<Star(Sp),
                            Words(<<"ea", "each", "lb", "oz", "kg", "g", "ml", "l", "pc", "pcs">>)>>))>>,
     grp |-> 1] >>

product_categories == <<
    \* food
    "organic", "fresh", "frozen", "canned", "dried", "raw", "cooked",
    "milk", "bread", "eggs", "cheese", "butter", "yogurt", "meat",
    "chicken", "beef", "pork", "fish", "salmon", "tuna", "shrimp",
    "apple", "banana", "orange", "grape", "berry", "tomato", "potato",
    "onion", "carrot", "lettuce", "spinach", "broccoli", "pepper",
    "rice", "pasta", "cereal", "oats", "flour", "sugar", "salt",
    "oil", "vinegar", "sauce", "soup", "juice", "water", "soda",
    "coffee", "tea", "wine", "beer", "snack", "cookie", "candy",
    \* household
    "detergent", "soap", "shampoo", "toothpaste", "tissue", "paper",
    "towel", "cleaner", "bleach", "sponge", "brush", "bag", "foil",
    "wrap", "container", "bottle", "jar", "box", "can",
    \* personal
    "deodorant", "lotion", "cream", "makeup", "perfume", "razor",
    "vitamin", "medicine", "bandage", "cotton", "nail", "hair" >>

measurement_units == <<
    "lb", "lbs", "pound", "pounds", "oz", "ounce", "ounces",
    "kg", "kilogram", "g", "gram", "grams",
    "ml", "milliliter", "l", "liter", "liters",
    "fl oz", "fluid ounce", "gallon", "gallons", "quart", "quarts",
    "pack", "packs", "package", "packages", "box", "boxes",
    "bottle", "bottles", "can", "cans", "jar", "jars",
    "bag", "bags", "dozen", "each", "ea", "pc", "pcs", "piece", "pieces" >>

common_brands == <<
    "coca cola", "pepsi", "kraft", "nestle", "unilever", "procter",
    "johnson", "kellogg", "general mills", "nabisco", "frito lay",
    "heinz", "campbell", "del monte", "dole", "chiquita", "tropicana",
    "minute maid", "ocean spray", "starbucks", "folgers", "maxwell",
    "tide", "downy", "charmin", "bounty", "kleenex", "scott",
    "crest", "colgate", "oral b", "gillette", "dove", "olay" >>

\* a\s*b
Gap(a, b) == Cat(<<Lit(a), Star(Sp), Lit(b)>>)
\* ^(alternatives).*
Starts(alts) == Cat(<<Bol, Alt(alts), Star(AnyChar)>>)
L(strs) == [k \in 1..Len(strs) |-> Lit(strs[k])]

\* self.noise_patterns, the three categories in the order of the dict
noise_patterns == <<
    \* receipt_metadata
    Starts(L(<<"receipt", "rcpt", "ref", "reference", "transaction", "trans", "txn">>)),
    Starts(L(<<"store", "shop", "market", "location", "address">>)),
    Starts(L(<<"phone", "tel", "telephone", "email", "website", "www">>)),
    Starts(L(<<"date", "time", "day", "hour", "minute">>)),
    Starts(L(<<"cashier", "clerk", "server", "operator", "manager">>)),
    Cat(<<Bol, Rep(D, 10, Inf), Eol>>),
    Cat(<<Bol, Rep(Set(UPPER \cup DIGIT), 8, Inf), Eol>>),
    \* totals_and_payments
    Starts(<<Gap("sub", "total"), Lit("subtotal"), Lit("sub-total")>>),
    Starts(<<Lit("total"), Gap("grand", "total"), Gap("final", "total"), Gap("amount", "due")>>),
    Starts(<<Lit("tax"), Gap("sales", "tax"), Lit("hst"), Lit("gst"), Lit("pst"), Lit("vat"), Lit("duty")>>),
    Starts(L(<<"change", "cash", "credit", "debit", "card", "payment">>)),
    Starts(L(<<"balance", "due", "owing", "paid">>)),
    Starts(L(<<"discount", "coupon", "savings", "promotion">>)),
    \* customer_service
    Starts(<<Gap("thank", "you"), Lit("thanks"), Lit("visit"), Lit("welcome"), Lit("goodbye")>>),
    Starts(<<Gap("have", "a"), Gap("nice", "day"), Gap("good", "day"), Gap("see", "you")>>),
    Starts(L(<<"customer", "member", "loyalty", "points", "rewards">>)),
    Starts(<<Gap("return", "policy"), Lit("exchange"), Lit("warranty"), Lit("guarantee")>>),
    Starts(<<Lit("survey"), Lit("feedback"), Gap("rate", "us"), Lit("review")>>) >>

\* self.validation_rules
min_length  == 3
max_length  == 60
min_letters == 3
max_price   == 99999
min_price   == 1
\* required_patterns: [a-zA-Z]{3,}
required_patterns == << Rep(Set(ALPHA), 3, Inf) >>

(***************************************************************************)
(* Confidence arithmetic.  A confidence x in [0,1] is the integer          *)
(* x * Scale; Scale is such that every value the code computes from an     *)
(* integer OCR confidence is a whole number of units.                      *)
(***************************************************************************)
Scale == 400
One   == Scale
\* n tenths: 0.1 * n
Tenths(n) == (n * Scale) \div 10
\* confidences[i] / 100.0
OcrFraction(c) == (c * Scale) \div 100
Min(a, b) == IF a <= b THEN a ELSE b

\* Python's None; a value that may be None is <<>> or <<value>>
None == <<>>
Some(value) == <<value>>

(***************************************************************************)
(* The lines the receipts of this development are made of.                 *)
(***************************************************************************)
\* an item two classifiers agree on, a line only the semantic classifier reads,
\* an item only the pattern classifier reads, a product the noise filter takes for
\* a payment line, and a line with two prices
ItemLines == {"Milk 2.99", "2 oz 4.99 ea", "Big Item 600.00", "Cashews 3.99", "Soap 9.99 5.00",
              "Wine 1500.00"}

\* the amounts at the foot of a receipt
TotalsLines == {"Subtotal $18.26", "Tax $1.46", "Total $19.72", "TOTAL $50.00"}
\* a line under the totals
FooterLine == "Thank you"

\* what the camera may see: items, a total, a date, a date far ahead and a
\* stray mark
DocLines == {"Milk 2.99", "2 oz 4.99 ea", "Total $19.72", "01/15/2024", "12/31/2099", "|"}

\* the head of a receipt: a merchant of the vocabulary on a line of its own and
\* with a store number, a merchant not of the vocabulary, an address, a number
MerchantLines == {"CVS", "Walmart #12", "Corner Bakery", "123 Main St", "555"}

\* lines of products whose names have words of the exclusion vocabulary: one
\* word of two, and both
NameLines == {"Gift Card 25.00", "Thank Member 3.99", "Candy 1.50"}

\* what is left of a line when OCR loses its last word
Clipped(line) == StrJoin(SubSeq(StrSplit(line), 1, Len(StrSplit(line)) - 1))

KnownLines ==
    ItemLines \cup TotalsLines \cup {FooterLine} \cup DocLines \cup MerchantLines
    \cup NameLines
    \cup {Clipped(line) : line \in DocLines}

(***************************************************************************)
(* MultiModelReceiptProcessor: the helpers of the three classifiers.       *)
(***************************************************************************)
\* _is_noise_line
IsNoiseLine(line) ==
    LET line_lower == StrStrip(StrLower(line))
    IN  \/ \E k \in 1..Len(noise_patterns) : ReMatch(noise_patterns[k], line_lower, TRUE)
        \/ Len(line_lower) < 3 \/ Len(line_lower) > 80
        \/ AlphaCount(line_lower) < 3

\* the amounts re.findall finds with one pattern table, validated into [lo, hi]
PricesWith(patterns, line, lo, hi) ==
    SortedSeq({c \in {CentsOf(m) : m \in UNION { Range(ReFindAll(patterns[k].segs,
                                                                  patterns[k].grp, line))
                                                  : k \in 1..Len(patterns) }} :
                  lo <= c /\ c <= hi})

\* _extract_prices_enhanced
ExtractPricesEnhanced(line) == PricesWith(enhanced_price_patterns, line, min_price, max_price)

RECURSIVE SubEach(_, _, _, _)
RECURSIVE SubNext(_, _, _, _)
\* for pattern in patterns: s = re.sub(pattern, '', s, count)
SubEach(patterns, k, s, count) ==
    IF k > Len(patterns) THEN s
    ELSE SubNext(patterns, k + 1, ReSub(patterns[k], "", s, count), count)

\* the loop goes on with t, the text the last pattern left; the test makes TLC
\* compute t here, before the next pattern is tried
SubNext(patterns, k, t, count) ==
    IF Len(t) >= 0 THEN SubEach(patterns, k, t, count) ELSE t

\* re.IGNORECASE, which the code passes to re.sub in the place of count
IGNORECASE == 2

\* ^<indicator>\s+ of each merchant indicator
merchant_prefixes ==
    [k \in 1..Len(merchant_indicators) |-> <<Bol, Lit(merchant_indicators[k]), Plus(Sp)>>]
\* ^[^\w]+|[^\w\s]+$
ragged_edges ==
    <<Alt(<<Cat(<<Bol, Plus(NSet(WORD))>>), Cat(<<Plus(NSet(WORD \cup SPACE)), Eol>>)>>)>>

\* _extract_item_name_enhanced: the prices, the quantities and a merchant name
\* in front are removed in turn, the white space is squeezed and the edges cleaned
ExtractItemNameEnhanced(line) ==
    ReSub(ragged_edges, "",
          StrStrip(ReSub(<<Plus(Sp)>>, " ",
              SubEach(merchant_prefixes, 1,
                  SubEach(SegsOf(quantity_patterns), 1,
                      SubEach(SegsOf(enhanced_price_patterns), 1, line, 0),
                      IGNORECASE),
                  IGNORECASE),
              0)),
          0)

exclude_words == {
    "total", "subtotal", "subiotal", "sub total", "tax", "change", "cash", "credit", "debit",
    "receipt", "store", "date", "time", "cashier", "thank", "visit",
    "discount", "coupon", "savings", "member", "payment", "card" }

\* a validation that rejects a name for its words only if all of them are
\* exclusion words
ValidateUnlessAllExcluded(item_name) ==
    /\ item_name # ""
    /\ min_length <= Len(item_name) /\ Len(item_name) <= max_length
    /\ AlphaCount(item_name) >= min_letters
    /\ \A k \in 1..Len(required_patterns) : ReSearch(required_patterns[k], item_name, FALSE)
    /\ ~(Range(StrSplit(StrLower(item_name))) \subseteq exclude_words)

\* _validate_item_name
ValidateItemName(item_name) ==
    /\ item_name # ""
    /\ min_length <= Len(item_name) /\ Len(item_name) <= max_length
    /\ AlphaCount(item_name) >= min_letters
    /\ \A k \in 1..Len(required_patterns) : ReSearch(required_patterns[k], item_name, FALSE)
    /\ Range(StrSplit(StrLower(item_name))) \cap exclude_words = {}

\* _calculate_semantic_score: 0.3 for each keyword and 0.2 for each brand the
\* line contains, 0.4 for each unit it has as a word
CalculateSemanticScore(line) ==
    LET line_lower == StrLower(line)
        keywords == {k \in 1..Len(product_categories) :
                        Contains(line_lower, product_categories[k])}
        units    == {k \in 1..Len(measurement_units) :
                        ReSearch(Cat(<<WordB, Lit(measurement_units[k]), WordB>>),
                                 line_lower, FALSE)}
        brands   == {k \in 1..Len(common_brands) : Contains(line_lower, common_brands[k])}
    IN  Min(  Tenths(3) * Cardinality(keywords)
            + Tenths(4) * Cardinality(units)
            + Tenths(2) * Cardinality(brands), One)

\* [a-zA-Z].+\$?\d+\.\d{2}
ItemShape == Cat(<<Set(ALPHA), Plus(AnyChar), Opt(Dollar), Plus(D), Lit("."), Rep(D, 2, 2)>>)

\* float(text) succeeds: text is a decimal number
IsFloat(text) == ReMatch(Cat(<<Number, Eol>>), text, FALSE)
\* float(text) > 0 for a decimal number
IsPositive(text) == \E i \in 1..Len(text) : At(text, i) \in DIGIT \ {"0"}

\* the quantity patterns _extract_quantity_enhanced tries, in order
enhanced_patterns == quantity_patterns \o <<Priced("x"), Priced("@"), Priced("for")>>

\* the text of group g of a match of boundaries b
GroupText(line, b, g) == SubSeq(line, b[g], b[g + 1] - 1)

RECURSIVE QuantityFrom(_, _, _, _)
RECURSIVE QuantityAt(_, _, _, _, _, _)
\* The loop of _extract_quantity_enhanced from pattern k on, quantity q and
\* unit price u being the values assigned so far.  A quantity is the text of the
\* number matched; a unit price is the text matched or, for total_price /
\* quantity, "/" followed by the quantity.
QuantityFrom(k, line, q, u) ==
    IF k > Len(enhanced_patterns) THEN <<q, u>>
    ELSE QuantityAt(k, enhanced_patterns[k],
                    SearchFrom(enhanced_patterns[k].segs, line, 1, TRUE), line, q, u)

\* pattern k, whose re.search gave the boundaries b
QuantityAt(k, pat, b, line, q, u) ==
    IF b = <<>> THEN QuantityFrom(k + 1, line, q, u)
    ELSE IF pat.g2 # 0
         THEN IF IsFloat(GroupText(line, b, pat.g2))
              THEN <<Some(GroupText(line, b, pat.g1)), Some(GroupText(line, b, pat.g2))>>
              \* float() of the second group raises ValueError after the
              \* quantity was assigned; the loop goes on
              ELSE QuantityFrom(k + 1, line, Some(GroupText(line, b, pat.g1)), u)
         ELSE <<Some(GroupText(line, b, pat.g1)),
                IF IsPositive(GroupText(line, b, pat.g1))
                THEN Some("/" \o GroupText(line, b, pat.g1)) ELSE u>>

\* _extract_quantity_enhanced
ExtractQuantityEnhanced(line) == QuantityFrom(1, line, None, None)

\* _generate_item_key: the normalized name and the price rounded to cents
GenerateItemKey(name, price) ==
    <<ReSub(<<Plus(Sp)>>, " ", StrStrip(StrLower(name)), 0), price>>

(***************************************************************************)
(* The helpers are functions of the line alone.  What they give for the    *)
(* lines of this development is computed once and kept in a table; a call  *)
(* of a helper is a look-up in the table.                                  *)
(***************************************************************************)
LineTable ==
    [line \in KnownLines |->
        [noise          |-> IsNoiseLine(line),
         prices         |-> ExtractPricesEnhanced(line),
         item_name      |-> ExtractItemNameEnhanced(line),
         semantic_score |-> CalculateSemanticScore(line),
         item_shape     |-> ReSearch(ItemShape, line, FALSE),
         quantity       |-> ExtractQuantityEnhanced(line)]]

\* the names a table of lines gives, as they are and stripped
NamesOf(table) ==
    UNION {{table[line].item_name, StrStrip(table[line].item_name)} : line \in DOMAIN table}

KnownNames == NamesOf(LineTable)

NameTable ==
    [name \in KnownNames |->
        [valid |-> ValidateItemName(name),
         key   |-> GenerateItemKey(name, 0)[1]]]

\* classifiers that skip no line
noise_filter_off(line) == FALSE

\* self._is_noise_line(line)
is_noise_line(line) == LineTable[line].noise
\* self._extract_prices_enhanced(line)
extract_prices_enhanced(line) == LineTable[line].prices
\* self._extract_item_name_enhanced(line)
extract_item_name_enhanced(line) == LineTable[line].item_name
\* self._calculate_semantic_score(line)
calculate_semantic_score(line) == LineTable[line].semantic_score
\* re.search(r'[a-zA-Z].+\$?\d+\.\d{2}', line)
has_item_shape(line) == LineTable[line].item_shape
\* self._extract_quantity_enhanced(line)
extract_quantity_enhanced(line) == LineTable[line].quantity
\* self._validate_item_name(item_name)
validate_item_name(item_name) == NameTable[item_name].valid
\* self._generate_item_key(item.name, item.total_price)
generate_item_key(name, price) == <<NameTable[name].key, price>>

\* _calculate_structural_confidence; line_idx counts from 0
CalculateStructuralConfidence(line_idx, total_lines, line, prices) ==
    LET position == IF 2 * total_lines <= 10 * line_idx /\ 10 * line_idx <= 8 * total_lines
                    THEN Tenths(2) ELSE 0
        price    == IF prices # <<>> /\ 50 <= Last(prices) /\ Last(prices) <= 5000
                    THEN Tenths(2) ELSE 0
    IN  Min(Tenths(5) + position + price
            + (IF has_item_shape(line) THEN Tenths(1) ELSE 0), One)

\* _calculate_enhanced_confidence; line_idx counts from 0
CalculateEnhancedConfidence(line, item_name, price, line_idx, confidences) ==
    LET with_ocr == IF line_idx < Len(confidences)
                    THEN (Tenths(4) + OcrFraction(confidences[line_idx + 1])) \div 2
                    ELSE Tenths(4)
        long     == IF Len(item_name) >= 5 THEN Tenths(1) ELSE 0
        words    == IF Len(StrSplit(item_name)) >= 2 THEN Tenths(1) ELSE 0
        cost     == IF 50 <= price /\ price <= 10000 THEN Tenths(2)
                    ELSE IF 1 <= price /\ price <= 50000 THEN Tenths(1) ELSE 0
    IN  Min((with_ocr + calculate_semantic_score(line)) \div 2 + long + words + cost, One)

\* ReceiptItem(name=item_name.strip(), ...); quantity is the pair quantity,
\* unit_price of _extract_quantity_enhanced
ReceiptItem(item_name, quantity, total_price, confidence, line_idx) ==
    [name        |-> StrStrip(item_name),
     quantity    |-> quantity[1],
     unit_price  |-> quantity[2],
     total_price |-> total_price,
     confidence  |-> confidence,
     line_number |-> line_idx]

\* if confidence >= floor: items.append(item)
AppendFrom(floor, items, item) ==
    IF item.confidence >= floor THEN Append(items, item) ELSE items

\* what a classifier hands back: its items, or an exception
Returned(items) == [items |-> items, raised |-> FALSE]
Raised          == [items |-> <<>>, raised |-> TRUE]

(***************************************************************************)
(* The three classifiers.  i is the 1-based index of the line, i - 1 the   *)
(* line_idx of the code.                                                   *)
(***************************************************************************)
\* one turn of the loop of the pattern classifier, prices and item_name being
\* what the helpers give for the line
PatternLine(line_idx, line, prices, item_name, confidences, items) ==
    IF is_noise_line(line) \/ prices = <<>> THEN items
    ELSE IF item_name = "" \/ ~validate_item_name(item_name) THEN items
    ELSE AppendFrom(Tenths(3), items,
             ReceiptItem(item_name, extract_quantity_enhanced(line), Last(prices),
                         CalculateEnhancedConfidence(line, item_name, Last(prices),
                                                     line_idx, confidences),
                         line_idx))

RECURSIVE PatternFrom(_, _, _, _)
PatternFrom(i, lines, confidences, items) ==
    IF i > Len(lines) THEN items
    ELSE PatternFrom(i + 1, lines, confidences,
             PatternLine(i - 1, lines[i], extract_prices_enhanced(lines[i]),
                         extract_item_name_enhanced(lines[i]), confidences, items))

\* _extract_items_pattern_based
ExtractItemsPatternBased(lines, confidences) == PatternFrom(1, lines, confidences, <<>>)

RECURSIVE SemanticFrom(_, _, _, _)
RECURSIVE SemanticLine(_, _, _, _, _, _, _)
SemanticFrom(i, lines, confidences, items) ==
    IF i > Len(lines) THEN Returned(items)
    ELSE SemanticLine(i, lines, confidences, items, calculate_semantic_score(lines[i]),
                      extract_prices_enhanced(lines[i]), extract_item_name_enhanced(lines[i]))

\* one turn of the loop of the semantic classifier, and the turns after it
SemanticLine(i, lines, confidences, items, semantic_score, prices, item_name) ==
    IF is_noise_line(lines[i]) \/ semantic_score < Tenths(3) \/ prices = <<>> \/ item_name = ""
    THEN SemanticFrom(i + 1, lines, confidences, items)
    \* confidences[line_idx] raises IndexError
    ELSE IF i > Len(confidences) THEN Raised
    ELSE SemanticFrom(i + 1, lines, confidences,
             AppendFrom(Tenths(4), items,
                 ReceiptItem(item_name, extract_quantity_enhanced(lines[i]), Last(prices),
                             (semantic_score + OcrFraction(confidences[i])) \div 2, i - 1)))

\* _extract_items_semantic
ExtractItemsSemantic(lines, confidences) == SemanticFrom(1, lines, confidences, <<>>)

\* price_lines: the 1-based indices of the lines with at least one price
PriceLines(lines) ==
    SortedSeq({i \in 1..Len(lines) : extract_prices_enhanced(lines[i]) # <<>>})

\* one turn of the loop of the structural classifier
StructuralLine(line_idx, total_lines, line, prices, item_name, items) ==
    IF is_noise_line(line) THEN items
    ELSE IF item_name = "" \/ ~validate_item_name(item_name) THEN items
    ELSE AppendFrom(Tenths(4), items,
             ReceiptItem(item_name, extract_quantity_enhanced(line), Last(prices),
                         CalculateStructuralConfidence(line_idx, total_lines, line, prices),
                         line_idx))

RECURSIVE StructuralFrom(_, _, _, _, _)
StructuralFrom(k, last, price_lines, lines, items) ==
    IF k > last THEN items
    ELSE StructuralFrom(k + 1, last, price_lines, lines,
             StructuralLine(price_lines[k] - 1, Len(lines), lines[price_lines[k]],
                            extract_prices_enhanced(lines[price_lines[k]]),
                            extract_item_name_enhanced(lines[price_lines[k]]), items))

\* the loop over price_lines[start_idx:end_idx], 0-based and end-exclusive in
\* the code
StructuralOver(price_lines, lines) ==
    LET n         == Len(price_lines)
        start_idx == IF n > 5 THEN 1 ELSE 0
        end_idx   == IF n > 5 THEN n - 2 ELSE n
    IN  IF n > 3 THEN StructuralFrom(start_idx + 1, end_idx, price_lines, lines, <<>>)
        ELSE <<>>

\* _extract_items_structural
ExtractItemsStructural(lines, confidences) == StructuralOver(PriceLines(lines), lines)

(***************************************************************************)
(* The ensemble combiner.                                                  *)
(***************************************************************************)
KeyOf(item) == generate_item_key(item.name, item.total_price)

\* a floor of 0.3
LowerFloor == Tenths(3)

\* the minimum confidence of a final item
ConfidenceFloor == Tenths(4)
\* what agreement adds to the confidence of the best item of a group
AgreementBonus == Tenths(1)

\* grouped_items[key]: the positions in all_items of the items with the key of
\* the item at position j
Group(all_items, j) == {k \in 1..Len(all_items) : KeyOf(all_items[k]) = KeyOf(all_items[j])}

\* the groups in the order of the dict, each given by the position of its first item
GroupLeaders(all_items) ==
    SortedSeq({j \in 1..Len(all_items) : \A k \in Group(all_items, j) : j <= k})

\* the first item of the lowest confidence instead
WorstOf(all_items, group) ==
    CHOOSE j \in group :
        /\ \A k \in group : all_items[k].confidence >= all_items[j].confidence
        /\ \A k \in group : all_items[k].confidence = all_items[j].confidence => j <= k

\* max(group, key=lambda x: x.confidence): the first item of the highest confidence
BestOf(all_items, group) ==
    CHOOSE j \in group :
        /\ \A k \in group : all_items[k].confidence <= all_items[j].confidence
        /\ \A k \in group : all_items[k].confidence = all_items[j].confidence => j <= k

\* the bonus without the cap at 1.0
BoostedUncapped(confidence) == confidence + AgreementBonus

\* best_item.confidence = min(best_item.confidence + 0.1, 1.0)
Boosted(confidence) == Min(confidence + AgreementBonus, One)

\* the item at position j after the loop over the groups, group being its group
Voted(all_items, j, group) ==
    IF Cardinality(group) >= 2 /\ j = BestOf(all_items, group)
    THEN [all_items[j] EXCEPT !.confidence = Boosted(all_items[j].confidence)]
    ELSE all_items[j]

\* all_items after the loop over the groups: the best item of each group of two
\* or more has been given the bonus, in place
AfterVoting(all_items) ==
    [j \in 1..Len(all_items) |-> Voted(all_items, j, Group(all_items, j))]

\* the position of the best item of the group of each leader
BestOfEach(all_items, leaders) ==
    [n \in 1..Len(leaders) |-> BestOf(all_items, Group(all_items, leaders[n]))]

\* final_items before the sort: one position per group, in the order of the groups
Selected(all_items) == BestOfEach(all_items, GroupLeaders(all_items))

RECURSIVE InsertDesc(_, _)
\* item x inserted after the items of sorted whose confidence is not below its own
InsertDesc(sorted, x) ==
    IF sorted = <<>> THEN <<x>>
    ELSE IF sorted[1].confidence >= x.confidence
         THEN <<sorted[1]>> \o InsertDesc(Tail(sorted), x)
         ELSE <<x>> \o sorted

RECURSIVE SortFrom(_, _, _)
SortFrom(seq, k, sorted) ==
    IF k > Len(seq) THEN sorted
    ELSE SortFrom(seq, k + 1, InsertDesc(sorted, seq[k]))

\* a combiner that leaves the items in the order of the groups
KeepOrder(seq) == seq

\* list.sort(key=lambda x: x.confidence, reverse=True): stable, items of equal
\* confidence keep their order
SortByConfidence(seq) == SortFrom(seq, 1, <<>>)

\* what the call leaves: the list returned, made of the items at the positions
\* picks of the list voted, and the candidates as they are in voted
Combined(np, ns, voted, picks) ==
    [items      |-> SelectSeq(SortByConfidence([n \in 1..Len(picks) |-> voted[picks[n]]]),
                              LAMBDA item : item.confidence >= ConfidenceFloor),
     pattern    |-> SubSeq(voted, 1, np),
     semantic   |-> SubSeq(voted, np + 1, np + ns),
     structural |-> SubSeq(voted, np + ns + 1, Len(voted))]

\* _ensemble_combine_items: the list returned, and the candidates as the call
\* leaves them
EnsembleCombineItems(pattern, semantic, structural) ==
    Combined(Len(pattern), Len(semantic),
             AfterVoting(pattern \o semantic \o structural),
             Selected(pattern \o semantic \o structural))

(***************************************************************************)
(* ImprovedReceiptProcessor.extract_receipt_metadata_smart.                *)
(***************************************************************************)
\* _extract_prices_precise
ExtractPricesPrecise(line) == PricesWith(price_patterns, line, 1, 999999)

RECURSIVE TitleFrom(_, _, _)
\* str.title(): a letter after a letter is lowered, any other letter is raised
TitleFrom(s, i, after_letter) ==
    IF i > Len(s) THEN ""
    ELSE (IF after_letter THEN LowerChar(At(s, i)) ELSE UpperChar(At(s, i)))
         \o TitleFrom(s, i + 1, At(s, i) \in ALPHA)

StrTitle(s) == TitleFrom(s, 1, FALSE)

\* re.sub(r'[^\w\s]', '', line).strip()
LineClean(line) == StrStrip(ReSub(<<NSet(WORD \cup SPACE)>>, "", line, 0))

\* the least element of a set of positions, 0 when it is empty
FirstOf(positions) ==
    IF positions = {} THEN 0 ELSE CHOOSE i \in positions : \A j \in positions : i <= j

\* a line that names a known merchant
IsKnownMerchant(line) ==
    /\ Len(LineClean(line)) > 3
    /\ \E k \in 1..Len(merchant_indicators) :
           Contains(StrLower(LineClean(line)), StrLower(merchant_indicators[k]))

\* a line the fallback takes for the merchant
IsFallbackMerchant(line) ==
    /\ Len(LineClean(line)) > 5
    /\ ~ReMatch(Cat(<<Bol, D>>), LineClean(line), FALSE)

\* \btotal\b
TotalWord == Cat(<<WordB, Lit("total"), WordB>>)
\* \bsub
SubPrefix == Cat(<<WordB, Lit("sub")>>)
\* \b(subtotal|sub\s*total)\b
SubtotalWord == Cat(<<WordB, Alt(<<Lit("subtotal"), Gap("sub", "total")>>), WordB>>)
\* \btax\b
TaxWord == Cat(<<WordB, Lit("tax"), WordB>>)

\* the field of the metadata a line is an amount of: the if/elif chain
TotalsField(line) ==
    LET line_lower == StrLower(line)
    IN  IF ReSearch(TotalWord, line_lower, FALSE) /\ ~ReSearch(SubPrefix, line_lower, FALSE)
        THEN "total"
        ELSE IF ReSearch(SubtotalWord, line_lower, FALSE) THEN "subtotal"
        ELSE IF ReSearch(TaxWord, line_lower, FALSE) THEN "tax"
        ELSE "none"

\* date_patterns
Slash == Set({"/", "-"})
date_patterns == <<
    <<Cat(<<Rep(D, 1, 2), Slash, Rep(D, 1, 2), Slash, Rep(D, 2, 4)>>)>>,
    <<Cat(<<Rep(D, 4, 4), Slash, Rep(D, 1, 2), Slash, Rep(D, 1, 2)>>)>> >>

\* the directives of datetime.strptime: %m, %d, %Y and %y
NonZero   == Set(DIGIT \ {"0"})
MonthDir  == Alt(<<Cat(<<Lit("1"), Set({"0", "1", "2"})>>), Cat(<<Lit("0"), NonZero>>), NonZero>>)
DayDir    == Alt(<<Cat(<<Lit("3"), Set({"0", "1"})>>), Cat(<<Set({"1", "2"}), D>>),
                   Cat(<<Lit("0"), NonZero>>), NonZero, Cat(<<Lit(" "), NonZero>>)>>)
Year4Dir  == Rep(D, 4, 4)
Year2Dir  == Rep(D, 2, 2)

\* month, day, year with separator sep; m, d, y are the segments of the fields
MonthFirst(sep, year) ==
    [segs |-> <<MonthDir, Lit(sep), DayDir, Lit(sep), year>>, m |-> 1, d |-> 3, y |-> 5]
YearFirst(sep) ==
    [segs |-> <<Year4Dir, Lit(sep), MonthDir, Lit(sep), DayDir>>, m |-> 3, d |-> 5, y |-> 1]

\* ['%m/%d/%Y', '%m-%d-%Y', '%Y/%m/%d', '%Y-%m-%d', '%m/%d/%y', '%m-%d-%y']
date_formats == <<
    MonthFirst("/", Year4Dir), MonthFirst("-", Year4Dir),
    YearFirst("/"), YearFirst("-"),
    MonthFirst("/", Year2Dir), MonthFirst("-", Year2Dir) >>

IsLeap(y) == y % 4 = 0 /\ (y % 100 # 0 \/ y % 400 = 0)
DaysIn(y, m) ==
    IF m = 2 THEN (IF IsLeap(y) THEN 29 ELSE 28)
    ELSE IF m \in {4, 6, 9, 11} THEN 30 ELSE 31

\* the date of a text that matches a format with the boundaries b
DateAt(date_str, fmt, b) ==
    LET Fld(g) == IntOf(StrStrip(SubSeq(date_str, b[g], b[g + 1] - 1)), 0)
        yy     == Fld(fmt.y)
        \* %y: 69-99 are 1969-1999, 00-68 are 2000-2068
        year   == IF b[fmt.y + 1] - b[fmt.y] = 4 THEN yy
                  ELSE IF yy <= 68 THEN 2000 + yy ELSE 1900 + yy
    IN  IF b = <<>> \/ Last(b) # Len(date_str) + 1 THEN None
        ELSE IF year < 1 \/ Fld(fmt.d) > DaysIn(year, Fld(fmt.m)) THEN None
        ELSE <<year, Fld(fmt.m), Fld(fmt.d)>>

\* datetime.strptime(date_str, fmt): <<year, month, day>>, or None for ValueError
Strptime(date_str, fmt) == DateAt(date_str, fmt, FirstBounds(fmt.segs, 1, date_str, 1, TRUE))

\* re.search(pattern, line).group(1), "" when there is no match
FirstMatch(line, b) == IF b = <<>> THEN "" ELSE SubSeq(line, b[1], b[2] - 1)

\* the texts the date patterns find in a line, one per pattern
DateStrs(line) ==
    [k \in 1..Len(date_patterns) |-> FirstMatch(line, SearchFrom(date_patterns[k], line, 1, FALSE))]

\* what each format makes of each text
DatesOf(strs) ==
    [k \in 1..Len(strs) |->
        [f \in 1..Len(date_formats) |->
            IF strs[k] = "" THEN None ELSE Strptime(strs[k], date_formats[f])]]

\* the first date of a table of dates, by pattern and then by format
FirstDate(dates) ==
    LET hits == {c \in (1..Len(dates)) \X (1..Len(date_formats)) : dates[c[1]][c[2]] # None}
        Before(c, e) == c[1] < e[1] \/ (c[1] = e[1] /\ c[2] <= e[2])
    IN  IF hits = {} THEN None
        ELSE LET c == CHOOSE h \in hits : \A e \in hits : Before(h, e)
             IN  dates[c[1]][c[2]]

\* the date one line gives: the first pattern that matches, then the first
\* format, that give a date
LineDate(line) == FirstDate(DatesOf(DateStrs(line)))

\* what the metadata extractor reads in each known line, computed once
MetadataTable ==
    [line \in KnownLines |->
        [prices   |-> ExtractPricesPrecise(line),
         field    |-> TotalsField(line),
         known    |-> IsKnownMerchant(line),
         fallback |-> IsFallbackMerchant(line),
         title    |-> StrTitle(LineClean(line)),
         date     |-> LineDate(line)]]

\* self._extract_prices_precise(line)
extract_prices_precise(line) == MetadataTable[line].prices
totals_field(line) == MetadataTable[line].field
is_known_merchant(line) == MetadataTable[line].known
is_fallback_merchant(line) == MetadataTable[line].fallback
\* line_clean.title()
merchant_title(line) == MetadataTable[line].title
line_date(line) == MetadataTable[line].date

\* the name on line known, or else on line fallback; 0 is no line
MerchantAt(lines, known, fallback) ==
    IF known # 0 THEN merchant_title(lines[known])
    ELSE IF fallback # 0 THEN merchant_title(lines[fallback])
    ELSE ""

\* the merchant name: a known merchant in the first five lines, else the first
\* long enough line of the first three that does not start with a digit
MerchantName(lines) ==
    MerchantAt(lines,
               FirstOf({i \in 1..Min(5, Len(lines)) : is_known_merchant(lines[i])}),
               FirstOf({i \in 1..Min(3, Len(lines)) : is_fallback_merchant(lines[i])}))

\* how many lines from the bottom are scanned for totals
TotalsWindow == 15

\* one turn of the loop: the last price of a line goes to the field of the line
TotalsLine(totals, prices, field) ==
    IF prices # <<>> /\ field # "none"
    THEN [totals EXCEPT ![field] = Some(Last(prices))]
    ELSE totals

RECURSIVE TotalsFrom(_, _, _, _)
\* for line in reversed(lines[-15:]), from line i down to line lo
TotalsFrom(i, lo, lines, totals) ==
    IF i < lo THEN totals
    ELSE TotalsFrom(i - 1, lo, lines,
             TotalsLine(totals, extract_prices_precise(lines[i]), totals_field(lines[i])))

\* the scan over the last ten lines only
TotalsOfTen(lines) ==
    LET lo == IF Len(lines) > 10 THEN Len(lines) - 10 + 1 ELSE 1
    IN  TotalsFrom(Len(lines), lo, lines, [total |-> None, subtotal |-> None, tax |-> None])

\* for line in reversed(lines[-15:]): ...
Totals(lines) ==
    LET lo == IF Len(lines) > TotalsWindow THEN Len(lines) - TotalsWindow + 1 ELSE 1
    IN  TotalsFrom(Len(lines), lo, lines, [total |-> None, subtotal |-> None, tax |-> None])

\* the date of line first; 0 is no line
DateOfLine(lines, first) == IF first = 0 THEN None ELSE line_date(lines[first])

\* the date: the first of the first ten lines that gives one
ReceiptDate(lines) ==
    DateOfLine(lines, FirstOf({i \in 1..Min(10, Len(lines)) : line_date(lines[i]) # None}))

\* the metadata dict
MetadataDict(merchant_name, date, totals) ==
    [merchant_name  |-> merchant_name,
     date           |-> date,
     time           |-> None,
     subtotal       |-> totals.subtotal,
     tax            |-> totals.tax,
     total          |-> totals.total,
     receipt_number |-> None]

\* extract_receipt_metadata_smart
ExtractReceiptMetadataSmart(lines) ==
    MetadataDict(MerchantName(lines), ReceiptDate(lines), Totals(lines))

(***************************************************************************)
(* ImprovedReceiptProcessor.extract_text_with_confidence.  The OCR         *)
(* collaborator answers image_to_string with the lines of the text it      *)
(* read, and image_to_data with tokens [text, conf, line_num]; either call *)
(* may raise instead.                                                      *)
(***************************************************************************)
OcrRaises == [raises |-> TRUE, lines |-> <<>>, tokens |-> <<>>]
OcrString(lines) == [raises |-> FALSE, lines |-> lines, tokens |-> <<>>]
OcrData(tokens)  == [raises |-> FALSE, lines |-> <<>>, tokens |-> tokens]

\* the confidence floor of a token that goes into a line
TokenFloor == 30

RECURSIVE LinesFrom(_, _, _, _, _)
\* the loop over data['text']: the lines closed so far, the words of the current
\* line and its line_num
LinesFrom(tokens, i, lines, current_line, current_line_num) ==
    IF i > Len(tokens)
    THEN IF current_line # <<>> THEN Append(lines, StrJoin(current_line)) ELSE lines
    ELSE LET tok == tokens[i]
         IN  IF tok.conf > TokenFloor /\ StrStrip(tok.text) # ""
             THEN IF tok.line_num # current_line_num
                  THEN LinesFrom(tokens, i + 1,
                                 IF current_line # <<>>
                                 THEN Append(lines, StrJoin(current_line)) ELSE lines,
                                 <<tok.text>>, tok.line_num)
                  ELSE LinesFrom(tokens, i + 1, lines, Append(current_line, tok.text),
                                 current_line_num)
             ELSE LinesFrom(tokens, i + 1, lines, current_line, current_line_num)

\* a reconstruction that takes every token for a confident one
ReconstructUnfloored(tokens) ==
    LinesFrom([i \in DOMAIN tokens |-> [tokens[i] EXCEPT !.conf = 100]], 1, <<>>, <<>>, -1)

ReconstructLines(tokens) == LinesFrom(tokens, 1, <<>>, <<>>, -1)

RECURSIVE SumSeq(_)
SumSeq(seq) == IF seq = <<>> THEN 0 ELSE seq[1] + SumSeq(Tail(seq))

\* [int(conf) for conf in data['conf'] if int(conf) > 0]
PositiveConfs(tokens) ==
    LET confs == [i \in 1..Len(tokens) |-> tokens[i].conf]
    IN  SelectSeq(confs, LAMBDA c : c > 0)

\* np.mean(confidences) / 100.0 if confidences else 0.5
AvgConfidence(tokens) ==
    LET confidences == PositiveConfs(tokens)
    IN  IF confidences = <<>> THEN Tenths(5)
        ELSE (SumSeq(confidences) * Scale) \div (100 * Len(confidences))

\* the arithmetic of the model is exact on these token lists: the mean of the
\* confidences above 0 is a whole number of percent
WholeMean(tokens) ==
    LET confidences == PositiveConfs(tokens)
    IN  confidences = <<>> \/ SumSeq(confidences) % Len(confidences) = 0

\* [line.strip() for line in lines if line.strip()]
StrippedLines(lines) ==
    SelectSeq([i \in 1..Len(lines) |-> StrStrip(lines[i])], LAMBDA line : line # "")

\* the results list: <<method, lines, confidence>> of each call that did not raise
OcrResults(simple, detailed) ==
    (IF simple.raises THEN <<>>
     ELSE << <<"simple", StrippedLines(simple.lines), Tenths(7)>> >>)
    \o
    (IF detailed.raises THEN <<>>
     ELSE << <<"detailed", ReconstructLines(detailed.tokens), AvgConfidence(detailed.tokens)>> >>)

\* max(results, key=lambda x: len(x[1]) * x[2]): the first result of the highest key
BestResult(results) ==
    LET Key(r) == Len(r[2]) * r[3]
        k == CHOOSE i \in 1..Len(results) :
                 /\ \A j \in 1..Len(results) : Key(results[j]) <= Key(results[i])
                 /\ \A j \in 1..Len(results) : Key(results[j]) = Key(results[i]) => i <= j
    IN  results[k]

RECURSIVE JoinLines(_)
\* '\n'.join(lines)
JoinLines(lines) ==
    IF lines = <<>> THEN ""
    ELSE IF Len(lines) = 1 THEN lines[1]
    ELSE lines[1] \o "\n" \o JoinLines(Tail(lines))

\* confidence * 100, a confidence in percent
Percent(confidence) == (confidence * 100) \div Scale

TextData(text, confidence, lines, line_confidences) ==
    [text |-> text, confidence |-> confidence, lines |-> lines,
     has_line_confidences |-> TRUE, line_confidences |-> line_confidences]

\* extract_text_with_confidence handing back one line confidence too few
ExtractTextShort(simple, detailed) ==
    LET results == OcrResults(simple, detailed)
        best    == BestResult(results)
        clean_lines == SelectSeq(StrippedLines(best[2]), LAMBDA line : Len(line) > 1)
    IN  IF results = <<>> THEN TextData("", 0, <<>>, <<>>)
        ELSE TextData(JoinLines(clean_lines), best[3], clean_lines,
                      [i \in 1..(Len(clean_lines) - 1) |-> Percent(best[3])])

\* extract_text_with_confidence
ExtractTextWithConfidence(simple, detailed) ==
    LET results == OcrResults(simple, detailed)
        best    == BestResult(results)
        clean_lines == SelectSeq(StrippedLines(best[2]), LAMBDA line : Len(line) > 1)
    IN  IF results = <<>> THEN TextData("", 0, <<>>, <<>>)
        ELSE TextData(JoinLines(clean_lines), best[3], clean_lines,
                      [i \in 1..Len(clean_lines) |-> Percent(best[3])])

(***************************************************************************)
(* The preprocessing selectors of AdvancedReceiptProcessor and of          *)
(* ReceiptImageProcessor: an OCR probe of each candidate image.            *)
(***************************************************************************)
\* the candidates, in the order they are appended
methods == <<"adaptive", "otsu", "morphological", "gaussian">>
processed_images == <<"basic_threshold", "adaptive_threshold", "morphological",
                      "gaussian_threshold">>

\* a candidate and the confidence the selector logs with it
Chosen(method, confidence) == [method |-> method, confidence |-> confidence]

\* np.mean(confidences) if confidences else 0, in percent
MeanConfidence(tokens) ==
    IF PositiveConfs(tokens) = <<>> THEN 0
    ELSE SumSeq(PositiveConfs(tokens)) \div Len(PositiveConfs(tokens))

RECURSIVE BestMethod(_, _, _, _)
\* the loop over methods, from candidate k on; best_method 0 is None
BestMethod(answers, k, best_method, best_confidence) ==
    IF k > Len(methods) THEN <<best_method, best_confidence>>
    ELSE IF answers[k].raises THEN BestMethod(answers, k + 1, best_method, best_confidence)
    ELSE IF MeanConfidence(answers[k].tokens) > best_confidence
    THEN BestMethod(answers, k + 1, k, MeanConfidence(answers[k].tokens))
    ELSE BestMethod(answers, k + 1, best_method, best_confidence)

\* if best_method is None: best_method = adaptive; best_confidence = 50
MethodOr(best) ==
    IF best[1] = 0 THEN Chosen("adaptive", 50) ELSE Chosen(methods[best[1]], best[2])

\* the selection of AdvancedReceiptProcessor.preprocess_image
SelectMethod(answers) == MethodOr(BestMethod(answers, 1, 0, 0))

RECURSIVE BestImage(_, _, _, _)
\* the loop of _select_best_preprocessing, from candidate k on
BestImage(answers, k, best_image, best_confidence) ==
    IF k > Len(processed_images) THEN Chosen(processed_images[best_image], best_confidence)
    ELSE IF answers[k].raises THEN BestImage(answers, k + 1, best_image, best_confidence)
    ELSE IF MeanConfidence(answers[k].tokens) > best_confidence
    THEN BestImage(answers, k + 1, k, MeanConfidence(answers[k].tokens))
    ELSE BestImage(answers, k + 1, best_image, best_confidence)

\* _select_best_preprocessing: best_image = processed_images[0][1] to begin with
SelectBestPreprocessing(answers) == BestImage(answers, 1, 1, 0)

(***************************************************************************)
(* AdvancedReceiptProcessor.extract_text_with_layout: the structured call  *)
(* under each page segmentation mode, and the unstructured fallback.       *)
(***************************************************************************)
psm_modes == <<6, 4, 3, 8>>

\* the test of a loop that takes every mode that read something
AnyConfidence(avg_confidence, best_confidence) == avg_confidence > 0

\* if avg_confidence > best_confidence
Better(avg_confidence, best_confidence) == avg_confidence > best_confidence

RECURSIVE BestMode(_, _, _, _)
\* the loop over psm_modes, from mode k on: <<best_result, best_confidence>>,
\* best_result being the place of the mode in psm_modes, 0 for None
BestMode(answers, k, best_result, best_confidence) ==
    IF k > Len(psm_modes) THEN <<best_result, best_confidence>>
    ELSE IF answers[k].raises THEN BestMode(answers, k + 1, best_result, best_confidence)
    ELSE IF Better(MeanConfidence(answers[k].tokens), best_confidence)
    THEN BestMode(answers, k + 1, k, MeanConfidence(answers[k].tokens))
    ELSE BestMode(answers, k + 1, best_result, best_confidence)

RECURSIVE LayoutLinesFrom(_, _, _, _, _)
\* the loop over best_result['text']
LayoutLinesFrom(tokens, i, lines, current_line, current_line_num) ==
    IF i > Len(tokens)
    THEN IF current_line # <<>> THEN Append(lines, StrJoin(current_line)) ELSE lines
    ELSE IF tokens[i].conf > TokenFloor
    THEN IF tokens[i].line_num # current_line_num
         THEN LayoutLinesFrom(tokens, i + 1,
                              IF current_line # <<>>
                              THEN Append(lines, StrJoin(current_line)) ELSE lines,
                              <<tokens[i].text>>, tokens[i].line_num)
         ELSE LayoutLinesFrom(tokens, i + 1, lines,
                              Append(current_line, tokens[i].text), current_line_num)
    ELSE LayoutLinesFrom(tokens, i + 1, lines, current_line, current_line_num)

\* lines = [line.strip() for line in lines if line.strip()]
LayoutLines(tokens) == StrippedLines(LayoutLinesFrom(tokens, 1, <<>>, <<>>, -1))

\* the dict returned, and the exception that leaves the call
LayoutResult(text, confidence, lines, layout_data) ==
    [raised |-> FALSE, text |-> text, confidence |-> confidence, lines |-> lines,
     layout_data |-> layout_data]

LayoutRaised ==
    [raised |-> TRUE, text |-> "", confidence |-> 0, lines |-> <<>>, layout_data |-> None]

\* text.split('\n') of the text that reads as these lines: an empty text
\* splits into one empty line
SplitLines(lines) == IF lines = <<>> THEN <<"">> ELSE lines

\* if best_result is None: the unstructured call, outside every try
SimpleFallback(simple) ==
    IF simple.raises THEN LayoutRaised
    ELSE LayoutResult(JoinLines(simple.lines), 50 * Scale, SplitLines(simple.lines), None)

\* the lines of the best mode: best is <<best_result, best_confidence>>
LayoutOfBest(answers, best) ==
    LayoutResult(JoinLines(LayoutLines(answers[best[1]].tokens)),
                 (best[2] * Scale) \div 100,
                 LayoutLines(answers[best[1]].tokens),
                 Some(answers[best[1]].tokens))

\* what the call does with the mode the loop has left
LayoutFrom(answers, simple, best) ==
    IF best[1] = 0 THEN SimpleFallback(simple) ELSE LayoutOfBest(answers, best)

\* extract_text_with_layout: answers are the structured calls of the four
\* modes, simple is the unstructured call
ExtractTextWithLayoutOf(answers, simple) ==
    LayoutFrom(answers, simple, BestMode(answers, 1, 0, 0))

(***************************************************************************)
(* The receipts the processor is run on.                                   *)
(***************************************************************************)
\* the longest receipt of item lines
MaxLines == 4
\* the longest run of totals lines at the head of a long receipt
MaxTotalsLines == 3
\* the most footer lines under the totals lines of a long receipt
MaxFooter == 14
\* the longest document in front of the camera
MaxDocLines == 2
\* how often the combiner is run on the same candidate lists
MaxRuns == 2

\* all sequences over a set of lines, up to a length
SeqsUpTo(vocab, n) == UNION {[1..k -> vocab] : k \in 0..n}

\* the per-line OCR confidences a caller passes with the lines: all 0, all 100,
\* 100 and 0 in turn, all 100 with none for the last line, or no
\* 'line_confidences' key at all
ConfProfiles == {"low", "high", "mixed", "short", "absent"}

ProfileConfidences(profile, n) ==
    [i \in 1..n |-> CASE profile = "low"   -> 0
                      [] profile = "high"  -> 100
                      [] profile = "mixed" -> IF i % 2 = 1 THEN 100 ELSE 0
                      [] OTHER             -> 0]

\* the text_data of a caller of extract_items_multi_model
TextInput(lines, profile) ==
    [text |-> JoinLines(lines), confidence |-> Tenths(7), lines |-> lines,
     has_line_confidences |-> profile # "absent",
     line_confidences |-> IF profile = "absent" THEN <<>>
                          ELSE IF profile = "short"
                               THEN ProfileConfidences("high", Len(lines) - 1)
                          ELSE ProfileConfidences(profile, Len(lines))]

\* the longest receipt given to classifiers that run side by side
MaxSide == 4

\* receipts of a few item lines, for the classifiers side by side
SideLines == {"Milk 2.99", "Cashews 3.99", "2 oz 4.99 ea"}

SideInputs ==
    {TextInput(lines, profile) :
        lines \in SeqsUpTo(SideLines, MaxSide), profile \in {"high", "mixed", "short"}}

ItemInputs ==
    {TextInput(lines, profile) : lines \in SeqsUpTo(ItemLines, MaxLines), profile \in ConfProfiles}

\* long receipts: totals lines with up to MaxFooter footer lines under them
TotalsInputs ==
    {TextInput(head \o [i \in 1..f |-> FooterLine], "high") :
        head \in SeqsUpTo(TotalsLines, MaxTotalsLines), f \in 0..MaxFooter}

\* the longest head of a receipt
MaxHead == 4

\* the longest receipt of named products
MaxNamed == 4

\* receipts of named products
NameInputs ==
    {TextInput(lines, profile) :
        lines \in SeqsUpTo(NameLines, MaxNamed), profile \in {"high", "low"}}

\* heads of receipts
MerchantInputs ==
    {TextInput(lines, "high") : lines \in SeqsUpTo(MerchantLines, MaxHead)}

\* text_data.get('line_confidences', [50] * len(lines))
LineConfidences(td) ==
    IF td.has_line_confidences THEN td.line_confidences
    ELSE [i \in 1..Len(td.lines) |-> 50]

\* an image file: whether cv2.imread decodes it, and the lines on the paper
Images ==
    {[decodable |-> FALSE, doc |-> <<>>]}
    \cup {[decodable |-> TRUE, doc |-> doc] : doc \in SeqsUpTo(DocLines, MaxDocLines)}

\* image_to_string: the call raises, reads nothing, or reads the lines, with the
\* white space and the final newline of the raw text
SimpleOutcomes(doc) ==
    {OcrRaises, OcrString(<<>>),
     OcrString([i \in 1..Len(doc) |-> " " \o doc[i] \o " "] \o <<"">>)}

\* the confidence of the word w of n of a line under a token profile
TokenConf(profile, w, n) ==
    CASE profile = "faint" -> 20
      [] profile = "clear" -> 90
      [] profile = "tail"  -> IF w = n THEN 20 ELSE 80
      [] OTHER             -> 60

RECURSIVE TokensFrom(_, _, _)
\* the tokens of image_to_data: a structural token of confidence -1 in front of
\* the words of each line
TokensFrom(doc, i, profile) ==
    IF i > Len(doc) THEN <<>>
    ELSE LET words == StrSplit(doc[i])
         IN  <<[text |-> "", conf |-> -1, line_num |-> i]>>
             \o [w \in 1..Len(words) |->
                    [text |-> words[w], conf |-> TokenConf(profile, w, Len(words)),
                     line_num |-> i]]
             \o TokensFrom(doc, i + 1, profile)

TokenProfiles == {"faint", "fair", "clear", "tail"}

DetailedOutcomes(doc) ==
    {OcrRaises}
    \cup {d \in {OcrData(TokensFrom(doc, 1, profile)) : profile \in TokenProfiles} :
             WholeMean(d.tokens)}

\* a segmentation mode that takes the page for one line
OneLine(tokens) == [i \in DOMAIN tokens |-> [tokens[i] EXCEPT !.line_num = 1]]

\* image_to_data under a segmentation mode: the call raises, reads nothing, or
\* reads the words, evenly, with a faint last word, or as one line
LayoutOutcomes(doc) ==
    {OcrRaises, OcrData(<<>>), OcrData(OneLine(TokensFrom(doc, 1, "fair")))}
    \cup {d \in {OcrData(TokensFrom(doc, 1, profile)) : profile \in {"fair", "tail"}} :
             WholeMean(d.tokens)}

\* image_to_data of a probe: the call raises, reads nothing, or reads the words
ProbeOutcomes(doc) ==
    {OcrRaises, OcrData(<<>>)}
    \cup {OcrData(TokensFrom(doc, 1, profile)) : profile \in {"fair", "clear"}}

(***************************************************************************)
(* The state of one call.                                                  *)
(***************************************************************************)
\* datetime.now() at the time of a call, as <<year, month, day>>: the day on
\* the receipt of this development, and a day after it
Clock == {<<2024, 1, 15>>, <<2026, 11, 5>>}

\* day a is after day b
Later(a, b) ==
    \/ a[1] > b[1]
    \/ a[1] = b[1] /\ a[2] > b[2]
    \/ a[1] = b[1] /\ a[2] = b[2] /\ a[3] > b[3]

VARIABLES
    user_id,           \* the user the receipt is uploaded for
    category_override, \* the category the caller gave, or None
    expenses,          \* the Expense objects made from the receipt
    database,          \* the rows committed to the database
    at,                \* the turn each classifier is at, when they run side by side
    call,              \* the method that was called
    pc,                \* the step the call is at
    now,               \* the day of the call
    image,             \* the image file the call was given
    probes,            \* what the OCR collaborator answered to the probes of preprocessing
    processed_image,   \* the candidate preprocessing chose, with its confidence
    ocr_answers,       \* what the OCR collaborator answered to the calls of recognition
    ocr_calls,         \* how many calls the OCR collaborator got
    text_data,         \* what extract_text_with_confidence returned
    pattern_items,     \* the candidates of the pattern classifier
    semantic_items,    \* the candidates of the semantic classifier
    structural_items,  \* the candidates of the structural classifier
    final_items,       \* what the ensemble combiner returned last
    first_items,       \* what the ensemble combiner returned the first time
    runs,              \* how often the combiner ran
    metadata,          \* what extract_receipt_metadata_smart returned
    receipt_data,      \* the ReceiptData of the call
    outcome            \* "running", "returned" or "raised"

vars == <<user_id, category_override, expenses, database, at, call, pc, now, image, probes, processed_image, ocr_answers, ocr_calls, text_data, pattern_items, semantic_items, structural_items,
          final_items, first_items, runs, metadata, receipt_data, outcome>>

\* what the processors leave as it is
persistence == <<user_id, category_override, expenses, database>>

\* what the steps after recognition leave as it is
recognition == <<at, call, now, image, probes, processed_image, ocr_answers>>

NoText == TextData("", 0, <<>>, <<>>)
NoMetadata ==
    [merchant_name |-> "", date |-> None, time |-> None, subtotal |-> None, tax |-> None,
     total |-> None, receipt_number |-> None]

\* ReceiptData(...)
ReceiptData(meta, items, confidence_score) ==
    [merchant_name |-> meta.merchant_name, date |-> meta.date, time |-> meta.time,
     items |-> items, subtotal |-> meta.subtotal, tax |-> meta.tax, total |-> meta.total,
     receipt_number |-> meta.receipt_number, confidence_score |-> confidence_score]

Fresh ==
    /\ user_id = 1 /\ category_override = None /\ expenses = <<>> /\ database = <<>>
    /\ at = [pattern |-> 1, semantic |-> 1, structural |-> 0]
    /\ probes = <<>> /\ processed_image = None /\ ocr_answers = <<>>
    /\ ocr_calls = 0
    /\ pattern_items = <<>> /\ semantic_items = <<>> /\ structural_items = <<>>
    /\ final_items = <<>> /\ first_items = <<>> /\ runs = 0
    /\ metadata = NoMetadata
    /\ receipt_data = ReceiptData(NoMetadata, <<>>, 0)
    /\ outcome = "running"

\* process_receipt_image(image_path) has been called
Init ==
    /\ call = "process_receipt_image"
    /\ pc = "preprocess"
    /\ now \in Clock
    /\ image \in Images
    /\ text_data = NoText
    /\ Fresh

\* extract_items_multi_model(text_data) has been called with a receipt of items
InitText ==
    /\ call = "extract_items_multi_model"
    /\ pc = "pattern"
    /\ now \in {d \in Clock : \A e \in Clock : ~Later(d, e)}
    /\ image = [decodable |-> TRUE, doc |-> <<>>]
    /\ text_data \in ItemInputs
    /\ Fresh

\* the same, with a long receipt
InitTotals ==
    /\ call = "extract_items_multi_model"
    /\ pc = "pattern"
    /\ now \in {d \in Clock : \A e \in Clock : ~Later(d, e)}
    /\ image = [decodable |-> TRUE, doc |-> <<>>]
    /\ text_data \in TotalsInputs
    /\ Fresh

\* extract_items_multi_model and extract_receipt_metadata_smart on the head of
\* a receipt
InitMerchant ==
    /\ call = "extract_items_multi_model"
    /\ pc = "pattern"
    /\ now \in {d \in Clock : \A e \in Clock : ~Later(d, e)}
    /\ image = [decodable |-> TRUE, doc |-> <<>>]
    /\ text_data \in MerchantInputs
    /\ Fresh

\* extract_items_multi_model on a receipt of named products
InitNames ==
    /\ call = "extract_items_multi_model"
    /\ pc = "pattern"
    /\ now \in {d \in Clock : \A e \in Clock : ~Later(d, e)}
    /\ image = [decodable |-> TRUE, doc |-> <<>>]
    /\ text_data \in NameInputs
    /\ Fresh

\* the methods of recognition that are called
RecognitionCalls ==
    {"process_receipt_image", "AdvancedReceiptProcessor.preprocess_image",
     "extract_text_with_layout", "ReceiptImageProcessor.preprocess_image"}

\* one of them has been called: process_receipt_image of the multi-model
\* processor and the preprocess_image methods with an image file,
\* extract_text_with_layout with an image that was decoded
InitRecognition ==
    /\ call \in RecognitionCalls
    /\ pc = IF call = "process_receipt_image" THEN "preprocess" ELSE call
    /\ image \in Images
    /\ call = "extract_text_with_layout" => image.decodable
    /\ now \in Clock
    /\ text_data = NoText
    /\ Fresh

\* preprocessing that hands on whatever imread gave
PreprocessUnchecked ==
    /\ pc = "preprocess"
    /\ pc' = "ocr"
    /\ UNCHANGED <<persistence, recognition, ocr_calls, text_data, pattern_items, semantic_items,
                   structural_items, final_items, first_items, runs, metadata,
                   receipt_data, outcome>>

\* preprocess_image_advanced: ValueError when the file does not decode
Preprocess ==
    /\ pc = "preprocess"
    /\ pc' = IF image.decodable THEN "ocr" ELSE "done"
    /\ outcome' = IF image.decodable THEN outcome ELSE "raised"
    /\ UNCHANGED <<persistence, recognition, ocr_calls, text_data, pattern_items, semantic_items,
                   structural_items, final_items, first_items, runs, metadata, receipt_data>>

\* extract_text_with_confidence: both OCR calls, whatever they answer
ExtractText ==
    /\ pc = "ocr"
    /\ \E simple \in SimpleOutcomes(image.doc), detailed \in DetailedOutcomes(image.doc) :
           /\ text_data' = ExtractTextWithConfidence(simple, detailed)
           /\ ocr_answers' = <<simple, detailed>>
    /\ ocr_calls' = ocr_calls + 2
    /\ pc' = "pattern"
    /\ UNCHANGED <<persistence, at, call, now, image, probes, processed_image, pattern_items, semantic_items, structural_items, final_items,
                   first_items, runs, metadata, receipt_data, outcome>>

\* Model 1 of extract_items_multi_model
PatternModel ==
    /\ pc = "pattern"
    /\ pattern_items' = ExtractItemsPatternBased(text_data.lines, LineConfidences(text_data))
    /\ pc' = "semantic"
    /\ UNCHANGED <<persistence, recognition, ocr_calls, text_data, semantic_items, structural_items, final_items,
                   first_items, runs, metadata, receipt_data, outcome>>

\* the call goes on with what the semantic classifier handed back
SemanticDone(got) ==
    /\ semantic_items' = got.items
    /\ pc' = IF got.raised THEN "done" ELSE "structural"
    /\ outcome' = IF got.raised THEN "raised" ELSE outcome

\* Model 2; an exception of the classifier leaves the call
SemanticModel ==
    /\ pc = "semantic"
    /\ SemanticDone(ExtractItemsSemantic(text_data.lines, LineConfidences(text_data)))
    /\ UNCHANGED <<persistence, recognition, ocr_calls, text_data, pattern_items, structural_items, final_items,
                   first_items, runs, metadata, receipt_data>>

\* Model 3
StructuralModel ==
    /\ pc = "structural"
    /\ structural_items' =
           ExtractItemsStructural(text_data.lines, LineConfidences(text_data))
    /\ pc' = "combine"
    /\ UNCHANGED <<persistence, recognition, ocr_calls, text_data, pattern_items, semantic_items, final_items,
                   first_items, runs, metadata, receipt_data, outcome>>

\* what a run of the combiner leaves
Voting(got) ==
    /\ final_items' = got.items
    /\ first_items' = IF runs = 0 THEN got.items ELSE first_items
    /\ pattern_items' = got.pattern
    /\ semantic_items' = got.semantic
    /\ structural_items' = got.structural
    /\ runs' = runs + 1

\* _ensemble_combine_items on the three candidate lists, which it may change
Vote == Voting(EnsembleCombineItems(pattern_items, semantic_items, structural_items))

\* the ensemble voting of extract_items_multi_model
Combine ==
    /\ pc = "combine"
    /\ Vote
    /\ pc' = "metadata"
    /\ UNCHANGED <<persistence, recognition, ocr_calls, text_data, metadata, receipt_data, outcome>>

\* a caller runs the combiner again on the lists it kept
CombineAgain ==
    /\ pc = "metadata"
    /\ runs < MaxRuns
    /\ Vote
    /\ UNCHANGED <<persistence, pc, recognition, ocr_calls, text_data, metadata, receipt_data, outcome>>

\* extract_receipt_metadata_smart
Metadata ==
    /\ pc = "metadata"
    /\ metadata' = ExtractReceiptMetadataSmart(text_data.lines)
    /\ pc' = "assemble"
    /\ UNCHANGED <<persistence, recognition, ocr_calls, text_data, pattern_items, semantic_items,
                   structural_items, final_items, first_items, runs, receipt_data, outcome>>

\* the ReceiptData is built and returned
Assemble ==
    /\ pc = "assemble"
    /\ receipt_data' = ReceiptData(metadata, final_items, text_data.confidence)
    /\ outcome' = "returned"
    /\ pc' = "done"
    /\ UNCHANGED <<persistence, recognition, ocr_calls, text_data, pattern_items, semantic_items,
                   structural_items, final_items, first_items, runs, metadata>>

\* process_receipt_image
\* the call goes on with the candidate chosen by the probes, if the file decoded
Probed(answers, chosen) ==
    /\ probes' = IF image.decodable THEN answers ELSE probes
    /\ processed_image' = IF image.decodable THEN Some(chosen) ELSE processed_image
    /\ ocr_calls' = ocr_calls + (IF image.decodable THEN Len(answers) ELSE 0)
    /\ outcome' = IF image.decodable THEN "returned" ELSE "raised"
    /\ pc' = "done"
    /\ UNCHANGED <<persistence, at, call, now, image, ocr_answers, text_data, pattern_items, semantic_items,
                   structural_items, final_items, first_items, runs, metadata, receipt_data>>

\* AdvancedReceiptProcessor.preprocess_image: ValueError when the file does not
\* decode, else a probe of each candidate
PreprocessImage ==
    /\ pc = "AdvancedReceiptProcessor.preprocess_image"
    /\ \E answers \in [1..Len(methods) -> ProbeOutcomes(image.doc)] :
           Probed(answers, SelectMethod(answers))

\* ReceiptImageProcessor.preprocess_image: ValidationError when the file does
\* not decode, else _select_best_preprocessing
PreprocessImageBasic ==
    /\ pc = "ReceiptImageProcessor.preprocess_image"
    /\ \E answers \in [1..Len(processed_images) -> ProbeOutcomes(image.doc)] :
           Probed(answers, SelectBestPreprocessing(answers))

\* the call returns got or raises; the unstructured call was made when no mode
\* was chosen
LayoutDone(answers, simple, got) ==
    /\ got.layout_data # None => simple = OcrRaises
    /\ text_data' = IF got.raised THEN text_data ELSE got
    /\ ocr_answers' = IF got.layout_data = None THEN Append(answers, simple) ELSE answers
    /\ ocr_calls' = ocr_calls + Len(answers) + (IF got.layout_data = None THEN 1 ELSE 0)
    /\ outcome' = IF got.raised THEN "raised" ELSE "returned"
    /\ pc' = "done"
    /\ UNCHANGED <<persistence, at, call, now, image, probes, processed_image, pattern_items, semantic_items,
                   structural_items, final_items, first_items, runs, metadata, receipt_data>>

\* AdvancedReceiptProcessor.extract_text_with_layout
ExtractTextWithLayout ==
    /\ pc = "extract_text_with_layout"
    /\ \E answers \in [1..Len(psm_modes) -> LayoutOutcomes(image.doc)],
          simple \in SimpleOutcomes(image.doc) :
           LayoutDone(answers, simple, ExtractTextWithLayoutOf(answers, simple))

Next ==
    \/ Preprocess
    \/ ExtractText
    \/ PatternModel
    \/ SemanticModel
    \/ StructuralModel
    \/ Combine
    \/ Metadata
    \/ Assemble

\* extract_items_multi_model and extract_receipt_metadata_smart on a text_data,
\* the combiner being run up to MaxRuns times
NextText ==
    \/ PatternModel
    \/ SemanticModel
    \/ StructuralModel
    \/ Combine
    \/ CombineAgain
    \/ Metadata

(***************************************************************************)
(* The three classifiers run side by side, a turn of a loop at a time, and *)
(* the combiner after them.                                                *)
(***************************************************************************)
\* extract_items_multi_model(text_data) has been called and the classifiers
\* are started together
InitSide ==
    /\ call = "extract_items_multi_model"
    /\ pc = "classifiers"
    /\ now \in {d \in Clock : \A e \in Clock : ~Later(d, e)}
    /\ image = [decodable |-> TRUE, doc |-> <<>>]
    /\ text_data \in SideInputs
    /\ Fresh

\* price_lines[start_idx:end_idx] of n price lines, from the first to the last
FirstConsidered(n) == IF n > 5 THEN 2 ELSE 1
LastConsidered(n) == IF n > 3 THEN (IF n > 5 THEN n - 2 ELSE n) ELSE 0

\* the loops that have come to their end
PatternFinished == at.pattern > Len(text_data.lines)
SemanticFinished == at.semantic > Len(text_data.lines)
StructuralFinished ==
    /\ at.structural > 0
    /\ at.structural > LastConsidered(Len(PriceLines(text_data.lines)))

\* a turn of the loop of the pattern classifier that writes its item to the
\* list of the semantic classifier
PatternStepShared ==
    /\ pc = "classifiers"
    /\ ~PatternFinished
    /\ semantic_items' =
           PatternLine(at.pattern - 1, text_data.lines[at.pattern],
                       extract_prices_enhanced(text_data.lines[at.pattern]),
                       extract_item_name_enhanced(text_data.lines[at.pattern]),
                       LineConfidences(text_data), semantic_items)
    /\ at' = [at EXCEPT !.pattern = @ + 1]
    /\ UNCHANGED <<persistence, call, pc, now, image, probes, processed_image, ocr_answers, ocr_calls,
                   text_data, pattern_items, structural_items, final_items, first_items,
                   runs, metadata, receipt_data, outcome>>

\* a turn of the loop of _extract_items_pattern_based
PatternStep ==
    /\ pc = "classifiers"
    /\ ~PatternFinished
    /\ pattern_items' =
           PatternLine(at.pattern - 1, text_data.lines[at.pattern],
                       extract_prices_enhanced(text_data.lines[at.pattern]),
                       extract_item_name_enhanced(text_data.lines[at.pattern]),
                       LineConfidences(text_data), pattern_items)
    /\ at' = [at EXCEPT !.pattern = @ + 1]
    /\ UNCHANGED <<persistence, call, pc, now, image, probes, processed_image, ocr_answers, ocr_calls,
                   text_data, semantic_items, structural_items, final_items, first_items,
                   runs, metadata, receipt_data, outcome>>

\* the loop of the semantic classifier goes on with what its turn gave, or
\* its exception leaves the call
SemanticTurned(got) ==
    /\ semantic_items' = IF got.raised THEN semantic_items ELSE got.items
    /\ pc' = IF got.raised THEN "done" ELSE pc
    /\ outcome' = IF got.raised THEN "raised" ELSE outcome
    /\ at' = [at EXCEPT !.semantic = @ + 1]
    /\ UNCHANGED <<persistence, call, now, image, probes, processed_image, ocr_answers, ocr_calls,
                   text_data, pattern_items, structural_items, final_items, first_items,
                   runs, metadata, receipt_data>>

\* a turn of the loop of _extract_items_semantic: the turn at.semantic is the
\* last one of the loop over the lines up to it
SemanticStep ==
    /\ pc = "classifiers"
    /\ ~SemanticFinished
    /\ SemanticTurned(SemanticFrom(at.semantic, SubSeq(text_data.lines, 1, at.semantic),
                                   LineConfidences(text_data), semantic_items))

\* _extract_items_structural: the scan for price_lines, then a turn of the
\* loop over them
StructuralStep ==
    /\ pc = "classifiers"
    /\ ~StructuralFinished
    /\ structural_items' =
           IF at.structural = 0 THEN structural_items
           ELSE StructuralLine(PriceLines(text_data.lines)[at.structural] - 1,
                               Len(text_data.lines),
                               text_data.lines[PriceLines(text_data.lines)[at.structural]],
                               extract_prices_enhanced(
                                   text_data.lines[PriceLines(text_data.lines)[at.structural]]),
                               extract_item_name_enhanced(
                                   text_data.lines[PriceLines(text_data.lines)[at.structural]]),
                               structural_items)
    /\ at' = [at EXCEPT !.structural =
                  IF @ = 0 THEN FirstConsidered(Len(PriceLines(text_data.lines))) ELSE @ + 1]
    /\ UNCHANGED <<persistence, call, pc, now, image, probes, processed_image, ocr_answers, ocr_calls,
                   text_data, pattern_items, semantic_items, final_items, first_items,
                   runs, metadata, receipt_data, outcome>>

\* the three lists are there: the call goes on to the combiner
Join ==
    /\ pc = "classifiers"
    /\ PatternFinished /\ SemanticFinished /\ StructuralFinished
    /\ pc' = "combine"
    /\ UNCHANGED <<persistence, recognition, ocr_calls, text_data, pattern_items, semantic_items,
                   structural_items, final_items, first_items, runs, metadata,
                   receipt_data, outcome>>

NextSide ==
    \/ PatternStep
    \/ SemanticStep
    \/ StructuralStep
    \/ Join
    \/ Combine

(***************************************************************************)
(* ReceiptExpenseManager: a receipt becomes expenses in the database.      *)
(***************************************************************************)
\* the users in the database
Users == {1}

\* validate_expense_data: the greatest amount, 1 million, in cents
MaxAmount == 100000000

\* the most items of a parsed receipt
MaxItems == 2

\* ReceiptItem(name=..., total_price=...) of receipt_processor
BasicItem(name, total_price) == [name |-> name, total_price |-> total_price]

\* the prices an item or a receipt may have been read with: none, zero, the
\* prices of the test, more than validation accepts
ParsedPrices == {None, Some(0), Some(999), Some(1599), Some(MaxAmount + 1)}

\* what parse_receipt_data may return
Receipts ==
    {ReceiptData([NoMetadata EXCEPT !.merchant_name = merchant_name, !.total = total],
                 items, Tenths(8))
        : merchant_name \in {"", "Bp", "Test Store"},
          total \in ParsedPrices,
          items \in SeqsUpTo({BasicItem("Test Item", price) : price \in ParsedPrices}, MaxItems)}

\* ReceiptExpenseManager.process_receipt_image(image_path, user_id,
\* category_override) has been called
InitManager ==
    /\ call = "ReceiptExpenseManager.process_receipt_image"
    /\ pc = "user"
    /\ user_id \in {1, 2}
    /\ category_override \in {None, Some("Food")}
    /\ expenses = <<>> /\ database = <<>>
    /\ now \in Clock
    /\ image = [decodable |-> TRUE, doc |-> <<>>]
    /\ text_data = NoText
    /\ at = [pattern |-> 1, semantic |-> 1, structural |-> 0]
    /\ probes = <<>> /\ processed_image = None /\ ocr_answers = <<>>
    /\ ocr_calls = 0
    /\ pattern_items = <<>> /\ semantic_items = <<>> /\ structural_items = <<>>
    /\ final_items = <<>> /\ first_items = <<>> /\ runs = 0
    /\ metadata = NoMetadata
    /\ receipt_data = ReceiptData(NoMetadata, <<>>, 0)
    /\ outcome = "running"

\* what the manager leaves as it is
extraction ==
    <<ocr_calls, text_data, pattern_items, semantic_items, structural_items, final_items,
      first_items, runs, metadata>>

\* validate_expense_data accepts the description and the amount
ValidExpenseData(description, amount) ==
    /\ description # ""
    /\ Len(StrStrip(description)) >= 3
    /\ Len(StrStrip(description)) <= 500
    /\ amount >= 0
    /\ amount <= MaxAmount

\* Expense(...)
Expense(description, amount, date, user, predicted_category, confidence_score) ==
    [description |-> description, amount |-> amount, date |-> date, user_id |-> user,
     predicted_category |-> predicted_category, confidence_score |-> confidence_score,
     source |-> "receipt_upload"]

\* every item with a price gives an expense, also one of 0.00
HasPrice(item) == item.total_price # None

\* if item.total_price and item.total_price > 0
Billable(item) == item.total_price # None /\ item.total_price[1] > 0

\* receipt_data.merchant_name or default
MerchantOr(receipt, default) ==
    IF receipt.merchant_name = "" THEN default ELSE receipt.merchant_name

\* the description of the expense of an item
ItemDescription(receipt, item) == MerchantOr(receipt, "Receipt") \o " - " \o item.name

\* receipt_data.date or datetime.now()
DateOr(receipt, today) == IF receipt.date = None THEN today ELSE receipt.date

\* the expense of each item with a price, or the exception of validation
ItemExpenses(receipt, billed, user, override, today) ==
    IF \E n \in 1..Len(billed) :
           ~ValidExpenseData(ItemDescription(receipt, billed[n]), billed[n].total_price[1])
    THEN Raised
    ELSE Returned([n \in 1..Len(billed) |->
                      Expense(StrStrip(ItemDescription(receipt, billed[n])),
                              billed[n].total_price[1], DateOr(receipt, today), user,
                              override, receipt.confidence_score)])

\* the one expense of the total, or the exception of validation
TotalExpense(receipt, user, override, today) ==
    IF ~ValidExpenseData(MerchantOr(receipt, "Receipt Purchase"), receipt.total[1])
    THEN Raised
    ELSE Returned(<<Expense(StrStrip(MerchantOr(receipt, "Receipt Purchase")),
                            receipt.total[1], DateOr(receipt, today), user, override,
                            receipt.confidence_score)>>)

\* _create_expenses_from_receipt
CreateExpensesFromReceipt(receipt, user, override, today) ==
    IF receipt.items # <<>>
    THEN ItemExpenses(receipt, SelectSeq(receipt.items, Billable), user, override, today)
    ELSE IF receipt.total # None /\ receipt.total[1] > 0
    THEN TotalExpense(receipt, user, override, today)
    ELSE Returned(<<>>)

\* what the classifier may answer: a category with a confidence, or an exception
Predictions ==
    {[raised |-> TRUE, category |-> "", confidence |-> 0],
     [raised |-> FALSE, category |-> "Food", confidence |-> Tenths(5)],
     [raised |-> FALSE, category |-> "Travel", confidence |-> One]}

\* the category of an expense without one is predicted, 'Other' when the
\* classifier raises
Categorized(expense, prediction) ==
    IF expense.predicted_category # None THEN expense
    ELSE IF prediction.raised THEN [expense EXCEPT !.predicted_category = Some("Other")]
    ELSE [expense EXCEPT !.predicted_category = Some(prediction.category),
                         !.confidence_score = Min(@, prediction.confidence)]

\* User.query.get(user_id): an unknown user ends the call with ValidationError
FindUser ==
    /\ pc = "user"
    /\ pc' = IF user_id \in Users THEN "parse" ELSE "done"
    /\ outcome' = IF user_id \in Users THEN outcome ELSE "raised"
    /\ UNCHANGED <<persistence, recognition, extraction, receipt_data>>

\* preprocess_image, extract_text and parse_receipt_data of the processor: the
\* receipt they give
ParseReceipt ==
    /\ pc = "parse"
    /\ receipt_data' \in Receipts
    /\ pc' = "create"
    /\ UNCHANGED <<persistence, recognition, extraction, outcome>>

\* the expenses are there, or the exception of validation leaves the call
Created(got) ==
    /\ expenses' = IF got.raised THEN expenses ELSE got.items
    /\ pc' = IF got.raised THEN "done" ELSE "store"
    /\ outcome' = IF got.raised THEN "raised" ELSE outcome
    /\ UNCHANGED <<user_id, category_override, database, recognition, extraction,
                   receipt_data>>

\* self._create_expenses_from_receipt(receipt_data, user_id, category_override)
CreateExpenses ==
    /\ pc = "create"
    /\ Created(CreateExpensesFromReceipt(receipt_data, user_id, category_override, now))

\* _store_expenses: the expenses get their category and are added to the
\* session; the commit stores them, or it fails, the session is rolled back and
\* DatabaseError leaves the call
StoreExpenses ==
    /\ pc = "store"
    /\ \E prediction \in Predictions, committed \in BOOLEAN :
           /\ expenses' = [n \in 1..Len(expenses) |-> Categorized(expenses[n], prediction)]
           /\ database' = IF committed THEN database \o expenses' ELSE database
           /\ outcome' = IF committed THEN "returned" ELSE "raised"
    /\ pc' = "done"
    /\ UNCHANGED <<user_id, category_override, recognition, extraction, receipt_data>>

NextManager ==
    \/ FindUser
    \/ ParseReceipt
    \/ CreateExpenses
    \/ StoreExpenses

(***************************************************************************)
(* The reconstruction of lines, of both processors, on lists of tokens.    *)
(***************************************************************************)
\* the most tokens image_to_data gives
MaxTokens == 3

\* a token of image_to_data: a word or a blank, at, just above and under the
\* floor, on one of two lines
TokenChoices ==
    {[text |-> text, conf |-> conf, line_num |-> line_num] :
        text \in {"Milk", "2.99", " "}, conf \in {-1, TokenFloor, TokenFloor + 1},
        line_num \in {1, 2}}

ReconstructionCalls ==
    {"ImprovedReceiptProcessor.extract_text_with_confidence",
     "AdvancedReceiptProcessor.extract_text_with_layout"}

\* image_to_data has answered and the lines are to be reconstructed
InitTokens ==
    /\ call \in ReconstructionCalls
    /\ pc = "reconstruct"
    /\ ocr_answers \in {<<OcrData(tokens)>> : tokens \in SeqsUpTo(TokenChoices, MaxTokens)}
    /\ ocr_calls = 1
    /\ user_id = 1 /\ category_override = None /\ expenses = <<>> /\ database = <<>>
    /\ now \in {d \in Clock : \A e \in Clock : ~Later(d, e)}
    /\ image = [decodable |-> TRUE, doc |-> <<>>]
    /\ text_data = NoText
    /\ at = [pattern |-> 1, semantic |-> 1, structural |-> 0]
    /\ probes = <<>> /\ processed_image = None
    /\ pattern_items = <<>> /\ semantic_items = <<>> /\ structural_items = <<>>
    /\ final_items = <<>> /\ first_items = <<>> /\ runs = 0
    /\ metadata = NoMetadata
    /\ receipt_data = ReceiptData(NoMetadata, <<>>, 0)
    /\ outcome = "running"

\* the lines of the detailed result of extract_text_with_confidence
ReconstructImproved ==
    /\ pc = "reconstruct"
    /\ call = "ImprovedReceiptProcessor.extract_text_with_confidence"
    /\ text_data' = [text_data EXCEPT !.lines = ReconstructLines(ocr_answers[1].tokens)]
    /\ pc' = "done"
    /\ UNCHANGED <<persistence, recognition, ocr_calls, pattern_items, semantic_items,
                   structural_items, final_items, first_items, runs, metadata, receipt_data,
                   outcome>>

\* the lines of the best result of extract_text_with_layout
ReconstructAdvanced ==
    /\ pc = "reconstruct"
    /\ call = "AdvancedReceiptProcessor.extract_text_with_layout"
    /\ text_data' = [text_data EXCEPT !.lines = LayoutLines(ocr_answers[1].tokens)]
    /\ pc' = "done"
    /\ UNCHANGED <<persistence, recognition, ocr_calls, pattern_items, semantic_items,
                   structural_items, final_items, first_items, runs, metadata, receipt_data,
                   outcome>>

NextTokens ==
    \/ ReconstructImproved
    \/ ReconstructAdvanced

\* the calls of recognition
NextRecognition ==
    \/ Next
    \/ PreprocessImage
    \/ PreprocessImageBasic
    \/ ExtractTextWithLayout

Spec == Init /\ [][Next]_vars
SpecRecognition == InitRecognition /\ [][NextRecognition]_vars
SpecSide == InitSide /\ [][NextSide]_vars
SpecText == InitText /\ [][NextText]_vars
SpecTotals == InitTotals /\ [][NextText]_vars
SpecMerchant == InitMerchant /\ [][NextText]_vars
SpecManager == InitManager /\ [][NextManager]_vars
SpecNames == InitNames /\ [][NextText]_vars
SpecTokens == InitTokens /\ [][NextTokens]_vars

(***************************************************************************)
(* Properties of the processor.                                            *)
(***************************************************************************)
\* the line an item was read from
SourceLine(item) == text_data.lines[item.line_number + 1]
\* all_items of the combiner
Candidates == pattern_items \o semantic_items \o structural_items
\* a step in which the combiner runs
VoteStep == runs' = runs + 1

\* C1: a call of process_receipt_image with a decodable image never raises and
\* ends with a ReceiptData returned, whatever the OCR calls do; when no line was
\* recognised the record has no items and no date, subtotal, tax or total.
C1_ReturnsRecord ==
    /\ image.decodable => outcome # "raised"
    /\ (image.decodable /\ pc = "done") => outcome = "returned"
    /\ (outcome = "returned" /\ text_data.lines = <<>>) =>
           /\ receipt_data.items = <<>>
           /\ receipt_data.date = None
           /\ receipt_data.subtotal = None
           /\ receipt_data.tax = None
           /\ receipt_data.total = None

\* a call returned although both OCR calls failed on a paper with lines on it
C1_BothOcrCallsFailed ==
    /\ outcome = "returned"
    /\ image.doc # <<>>
    /\ ocr_calls = 2
    /\ text_data = NoText
    /\ receipt_data.items = <<>>

\* C2: every item returned by extract_items_multi_model has a total price above 0
\* and a confidence from 0 to 1.
C2_PriceAndConfidence ==
    \A n \in 1..Len(final_items) :
        /\ final_items[n].total_price > 0
        /\ 0 <= final_items[n].confidence
        /\ final_items[n].confidence <= Scale

\* the combiner returned an item the cap held at 1.0 and one below it
C2_CappedItem ==
    /\ runs = 1
    /\ \E n, m \in 1..Len(final_items) :
           /\ final_items[n].confidence = Scale
           /\ final_items[m].confidence < Scale
    /\ \E j, k \in 1..Len(Candidates) :
           j # k /\ KeyOf(Candidates[j]) = KeyOf(Candidates[k])

\* C3: every item of the final list has a non-empty name with at least 3
\* alphabetic characters, whichever classifier proposed it.
C3_NameHasLetters ==
    \A n \in 1..Len(final_items) :
        /\ final_items[n].name # ""
        /\ AlphaCount(final_items[n].name) >= 3

\* the final list holds the item "ea", proposed by the semantic classifier alone
C3_TwoLetterName ==
    /\ runs = 1
    /\ \E n \in 1..Len(final_items) : final_items[n].name = "ea"
    /\ \A j \in 1..Len(pattern_items) : pattern_items[j].name # "ea"

\* C4: no candidate of a classifier and no final item was read from a line the
\* noise filter holds for.
C4_NoNoiseItems ==
    \A item \in Range(Candidates) \cup Range(final_items) :
        ~LineTable[SourceLine(item)].noise

\* the combiner returned items of a receipt with a priced line the noise filter
\* holds for
C4_NoiseLineWithPrice ==
    /\ runs = 1
    /\ final_items # <<>>
    /\ \E i \in 1..Len(text_data.lines) :
           /\ LineTable[text_data.lines[i]].noise
           /\ LineTable[text_data.lines[i]].prices # <<>>
           /\ NameTable[LineTable[text_data.lines[i]].item_name].valid

\* the highest confidence in a group of candidates
MaxConfidence(all, group) ==
    CHOOSE c \in {all[k].confidence : k \in group} : \A k \in group : all[k].confidence <= c

\* the candidates with the key of candidate j
SameKey(all, j) == {k \in 1..Len(all) : KeyOf(all[k]) = KeyOf(all[j])}

\* the confidence of the one item the candidates with the key of candidate j
\* collapse to: min(highest + 0.1, 1.0) for two or more, its own for one
Collapsed(all, j) ==
    IF Cardinality(SameKey(all, j)) >= 2
    THEN Min(MaxConfidence(all, SameKey(all, j)) + Tenths(1), Scale)
    ELSE all[j].confidence

\* the final items with the key of a candidate
FinalOf(final, candidate) == {n \in 1..Len(final) : KeyOf(final[n]) = KeyOf(candidate)}

\* C5, as the code has it: the candidates of one key collapse to at most one
\* final item; to exactly one, of confidence min(highest + 0.1, 1.0) for a group
\* of two or more, when that confidence reaches the floor 0.4, and to none below.
C5_OneItemPerKey ==
    [][VoteStep =>
         \A j \in 1..Len(Candidates) :
             LET same == FinalOf(final_items', Candidates[j])
                 conf == Collapsed(Candidates, j)
             IN  /\ Cardinality(same) <= 1
                 /\ conf >= Tenths(4) =>
                        /\ Cardinality(same) = 1
                        /\ \A n \in same : final_items'[n].confidence = conf
                 /\ conf < Tenths(4) => same = {}
                 /\ \A k \in SameKey(Candidates, j) :
                        Cardinality(SameKey(Candidates, j)) >= 2 =>
                            conf >= Candidates[k].confidence]_vars

\* C5 as stated: the candidates of one key collapse to exactly one final item, of
\* confidence min(highest + 0.1, 1.0) when they are two or more.
C5_ExactlyOnePerKey ==
    [][VoteStep =>
         \A j \in 1..Len(Candidates) :
             LET same == FinalOf(final_items', Candidates[j])
             IN  /\ Cardinality(same) = 1
                 /\ Cardinality(SameKey(Candidates, j)) >= 2 =>
                        \A n \in same :
                            final_items'[n].confidence = Collapsed(Candidates, j)]_vars

\* after the first run: two candidates of one key gave one final item, and a
\* candidate alone with its key, below the floor, gave none
C5_GroupAndDropped ==
    /\ runs = 1
    /\ \E j, k \in 1..Len(Candidates) :
           /\ j # k
           /\ KeyOf(Candidates[j]) = KeyOf(Candidates[k])
           /\ Cardinality(FinalOf(final_items, Candidates[j])) = 1
    /\ \E j \in 1..Len(Candidates) :
           /\ Candidates[j].confidence < Tenths(4)
           /\ SameKey(Candidates, j) = {j}
           /\ FinalOf(final_items, Candidates[j]) = {}

\* C6: a second run of the combiner on the same candidate lists returns the
\* items of the first run, with the same confidences, in the same order.
C6_Idempotent == runs >= 2 => final_items = first_items

\* the second run returned another list than the first
C6_SecondRunDiffers ==
    /\ runs = 2
    /\ Len(final_items) = Len(first_items)
    /\ \E n \in 1..Len(final_items) :
           final_items[n].confidence > first_items[n].confidence

\* C7: the list the combiner returns is in the order of the confidences, none
\* below a later one.
C7_SortedByConfidence ==
    \A n, m \in 1..Len(final_items) :
        n < m => final_items[n].confidence >= final_items[m].confidence

\* the sort moved an item read further down the receipt in front of another
C7_SortMovedItem ==
    /\ runs = 1
    /\ \E n, m \in 1..Len(final_items) :
           /\ n < m
           /\ final_items[n].confidence > final_items[m].confidence
           /\ final_items[n].line_number > final_items[m].line_number

\* the first candidate of each key
Leaders(all) == {j \in 1..Len(all) : \A k \in SameKey(all, j) : j <= k}

\* C8: the combiner returns the deduplicated items of confidence 0.4 or more,
\* after the bonus, and no other item.
C8_FloorExact ==
    [][VoteStep =>
         LET kept == {j \in Leaders(Candidates) : Collapsed(Candidates, j) >= Tenths(4)}
         IN  /\ \A n \in 1..Len(final_items') : final_items'[n].confidence >= Tenths(4)
             /\ Len(final_items') = Cardinality(kept)
             /\ \A j \in kept : FinalOf(final_items', Candidates[j]) # {}
             /\ \A n \in 1..Len(final_items') :
                    \E j \in kept : KeyOf(Candidates[j]) = KeyOf(final_items'[n])]_vars

\* an item exactly at the floor was kept and a candidate under it was dropped
C8_AtAndUnderFloor ==
    /\ runs = 1
    /\ \E n \in 1..Len(final_items) : final_items[n].confidence = Tenths(4)
    /\ \E j \in 1..Len(Candidates) :
           /\ Candidates[j].confidence < Tenths(4)
           /\ FinalOf(final_items, Candidates[j]) = {}

TotalsFields == {"subtotal", "tax", "total"}

\* the lines of a receipt with an amount for a field of the metadata
FieldLines(lines, fld) ==
    {i \in 1..Len(lines) :
        MetadataTable[lines[i]].field = fld /\ MetadataTable[lines[i]].prices # <<>>}

\* the amount of a line
AmountOf(line) == Last(MetadataTable[line].prices)

\* the lines the scan for totals reads: the last 15
Scanned(lines) == {i \in 1..Len(lines) : i > Len(lines) - 15}

\* one line with an amount for each of subtotal, tax and total
OneLineEach(lines) == \A fld \in TotalsFields : Cardinality(FieldLines(lines, fld)) = 1

\* the metadata has the amount of each such line in its field, and the line of
\* the total is the source of no final item
FieldsRead(lines) ==
    \A fld \in TotalsFields :
        \A i \in FieldLines(lines, fld) :
            /\ metadata[fld] = Some(AmountOf(lines[i]))
            /\ fld = "total" =>
                   \A n \in 1..Len(final_items) : final_items[n].line_number # i - 1

\* C9, as the code has it: of a receipt with one subtotal line, one tax line and
\* one total line, each with a price and each among the last 15 lines, the
\* metadata has each price in its field, and the total line is no item.
C9_TotalsInWindow ==
    pc = "assemble" =>
        LET lines == text_data.lines
        IN  (/\ OneLineEach(lines)
             /\ \A fld \in TotalsFields : FieldLines(lines, fld) \subseteq Scanned(lines))
            => FieldsRead(lines)

\* C9 as stated: the same of every receipt with one line of each kind.
C9_TotalsAnywhere ==
    pc = "assemble" => (OneLineEach(text_data.lines) => FieldsRead(text_data.lines))

\* the three lines head a receipt of 15 lines and were read
C9_FifteenLines ==
    /\ pc = "assemble"
    /\ Len(text_data.lines) = 15
    /\ OneLineEach(text_data.lines)
    /\ 1 \in FieldLines(text_data.lines, "subtotal")
    /\ metadata.subtotal # None /\ metadata.tax # None /\ metadata.total # None

\* the greatest of a set of positions
Lowest(positions) == CHOOSE i \in positions : \A j \in positions : j <= i

\* C10: of the lines the scan reads that have an amount for a field, the one
\* closest to the bottom gives the field; no such line higher up overwrites it.
C10_BottomLineWins ==
    pc = "assemble" =>
        \A fld \in TotalsFields :
            LET found == FieldLines(text_data.lines, fld) \cap Scanned(text_data.lines)
            IN  found # {} =>
                    metadata[fld] = Some(AmountOf(text_data.lines[Lowest(found)]))

\* two total lines were scanned and the metadata has the amount of the upper one
C10_UpperLineWon ==
    /\ pc = "assemble"
    /\ \E i, j \in FieldLines(text_data.lines, "total") \cap Scanned(text_data.lines) :
           /\ i < j
           /\ AmountOf(text_data.lines[i]) # AmountOf(text_data.lines[j])
           /\ metadata.total = Some(AmountOf(text_data.lines[i]))
           /\ j = Lowest(FieldLines(text_data.lines, "total"))

\* C11: the date of a returned record is never later than the time of the
\* call; a date in the future is dropped and the field left null.
C11_NoFutureDate ==
    outcome = "returned" =>
        (receipt_data.date # None => ~Later(receipt_data.date, now))

\* a receipt dated 12/31/2099 was read and the record returned has that date
C11_FutureDateKept ==
    /\ outcome = "returned"
    /\ \E i \in DOMAIN text_data.lines : text_data.lines[i] = "12/31/2099"
    /\ receipt_data.date = <<2099, 12, 31>>

(***************************************************************************)
(* Recognition: the preprocessing selectors and the orchestrators.         *)
(***************************************************************************)
\* the call of extract_text_with_layout has returned
LayoutReturned == call = "extract_text_with_layout" /\ outcome = "returned"

\* confidence_score=text_data['confidence'] of the record of the advanced
\* processor; the record of the multi-model processor has its own
OverallConfidence ==
    IF call = "extract_text_with_layout" THEN text_data.confidence
    ELSE receipt_data.confidence_score

\* C12: the overall confidence of a returned record is in [0,1], whether a
\* structured pass was chosen, the unstructured fallback was used, or no OCR
\* call succeeded.
C12_ConfidenceInUnit ==
    (outcome = "returned" /\ call \in {"process_receipt_image", "extract_text_with_layout"})
        => OverallConfidence \in 0..One

\* every structured pass failed, the fallback read the page, and the result
\* has the confidence 50
C12_FallbackConfidence ==
    /\ LayoutReturned
    /\ text_data.layout_data = None
    /\ text_data.lines # <<"">>
    /\ text_data.confidence = 50 * One

\* the modes of a call of extract_text_with_layout that read something
Succeeded == {k \in 1..Len(psm_modes) :
                 ~ocr_answers[k].raises /\ PositiveConfs(ocr_answers[k].tokens) # <<>>}

\* C13: a configuration that raises or returns nothing is recovered locally:
\* the others are tried, the result comes from one that succeeded, and when
\* every configuration fails, the fallback included, a result is returned all
\* the same and nothing is raised.
C13_RecoversLocally ==
    /\ (call = "extract_text_with_layout" /\ pc = "done") =>
           /\ outcome = "returned"
           /\ Len(ocr_answers) >= Len(psm_modes)
           /\ Succeeded # {} =>
                  \E k \in Succeeded : text_data.layout_data = Some(ocr_answers[k].tokens)
    /\ (call = "process_receipt_image" /\ image.decodable /\ pc = "done") =>
           outcome = "returned"

\* the four modes and the fallback raised, and so did the call
C13_FallbackRaised ==
    /\ call = "extract_text_with_layout" /\ pc = "done"
    /\ Len(ocr_answers) = Len(psm_modes) + 1
    /\ \A k \in DOMAIN ocr_answers : ocr_answers[k].raises
    /\ outcome = "raised"

\* the confidences of the tokens above the floor
SurvivorConfs(tokens) ==
    SelectSeq([i \in 1..Len(tokens) |-> tokens[i].conf], LAMBDA c : c > TokenFloor)

\* the mean of confs a is at least the mean of confs b, no confidence being a
\* mean of 0
MeanAtLeast(a, b) ==
    IF b = <<>> THEN TRUE
    ELSE IF a = <<>> THEN FALSE
    ELSE SumSeq(a) * Len(b) >= SumSeq(b) * Len(a)

\* the mode k gave the result of the call
ChosenMode(k) == text_data.layout_data = Some(ocr_answers[k].tokens)

\* C14 as stated: the mode chosen has the highest mean confidence over the
\* tokens above the floor, among the modes that succeeded.
C14_HighestSurvivorMean ==
    (LayoutReturned /\ Succeeded # {}) =>
        \E k \in Succeeded :
            /\ ChosenMode(k)
            /\ \A j \in Succeeded :
                   MeanAtLeast(SurvivorConfs(ocr_answers[k].tokens),
                               SurvivorConfs(ocr_answers[j].tokens))

\* the results of the two calls of extract_text_with_confidence
ImprovedResults == OcrResults(ocr_answers[1], ocr_answers[2])

\* C14: extract_text_with_layout chooses a mode whose mean confidence over the
\* tokens of confidence above 0 is the highest among the modes that succeeded,
\* and the fallback when no mode read a token of confidence above 0;
\* extract_text_with_confidence chooses, of its two calls that did not raise,
\* one of the highest product of line count and confidence.
C14_HighestPositiveMean ==
    /\ LayoutReturned =>
           IF Succeeded = {} THEN text_data.layout_data = None
           ELSE \E k \in Succeeded :
                    /\ ChosenMode(k)
                    /\ text_data.confidence * 100 = MeanConfidence(ocr_answers[k].tokens) * One
                    /\ \A j \in Succeeded :
                           MeanAtLeast(PositiveConfs(ocr_answers[k].tokens),
                                       PositiveConfs(ocr_answers[j].tokens))
    /\ (call = "process_receipt_image" /\ ocr_answers # <<>>) =>
           IF ImprovedResults = <<>> THEN text_data.confidence = 0 /\ text_data.lines = <<>>
           ELSE \E r \in DOMAIN ImprovedResults :
                    /\ text_data.confidence = ImprovedResults[r][3]
                    /\ Len(text_data.lines) <= Len(ImprovedResults[r][2])
                    /\ \A q \in DOMAIN ImprovedResults :
                           Len(ImprovedResults[q][2]) * ImprovedResults[q][3]
                               <= Len(ImprovedResults[r][2]) * ImprovedResults[r][3]

\* a later mode of a higher mean took the place of an earlier one, though the
\* earlier one has the higher mean over the tokens above the floor
C14_LaterModeChosen ==
    /\ LayoutReturned
    /\ \E j, k \in Succeeded :
           /\ j < k
           /\ ChosenMode(k)
           /\ ~ChosenMode(j)
           /\ ~MeanAtLeast(SurvivorConfs(ocr_answers[k].tokens),
                           SurvivorConfs(ocr_answers[j].tokens))

\* C15: of two modes of equal mean confidence the one whose reconstruction has
\* more lines is chosen, in whatever order the modes were tried.
C15_TieTakesMoreLines ==
    LayoutReturned =>
        \A k \in Succeeded :
            ChosenMode(k) =>
                \A j \in Succeeded :
                    MeanConfidence(ocr_answers[j].tokens) = MeanConfidence(ocr_answers[k].tokens)
                        => Len(LayoutLines(ocr_answers[j].tokens)) <= Len(text_data.lines)

\* the mode tried first read the page as one line, a later mode of the same
\* mean read two lines, and the result has the one line
C15_TieFirstTried ==
    /\ LayoutReturned
    /\ Len(text_data.lines) = 1
    /\ \E j \in Succeeded :
           /\ MeanConfidence(ocr_answers[j].tokens) * One = text_data.confidence * 100
           /\ Len(LayoutLines(ocr_answers[j].tokens)) = 2

\* a call of a preprocessing selector has returned
Preprocessed ==
    /\ call \in {"AdvancedReceiptProcessor.preprocess_image",
                  "ReceiptImageProcessor.preprocess_image"}
    /\ outcome = "returned"

\* the candidates of the selector that was called, and its adaptive binarization
CandidatesOf(method) ==
    IF method = "AdvancedReceiptProcessor.preprocess_image" THEN methods ELSE processed_images

AdaptiveOf(method) ==
    IF method = "AdvancedReceiptProcessor.preprocess_image" THEN "adaptive"
    ELSE "adaptive_threshold"

\* the candidates whose probe read something
Probed_ok == {k \in DOMAIN probes :
                 ~probes[k].raises /\ PositiveConfs(probes[k].tokens) # <<>>}

\* C16: the selector returns the candidate of the highest probe confidence
\* among the candidates whose probe succeeded, and the adaptive binarization
\* with an assumed confidence of 50 when every probe failed.
C16_HighestProbeOrDefault ==
    Preprocessed =>
        IF Probed_ok = {} THEN processed_image = Some(Chosen(AdaptiveOf(call), 50))
        ELSE \E k \in Probed_ok :
                 /\ processed_image[1].method = CandidatesOf(call)[k]
                 /\ \A j \in Probed_ok :
                        MeanConfidence(probes[j].tokens) <= MeanConfidence(probes[k].tokens)

\* every probe of ReceiptImageProcessor raised and the first candidate came
\* back, with the confidence 0
C16_FirstCandidateByDefault ==
    /\ call = "ReceiptImageProcessor.preprocess_image" /\ outcome = "returned"
    /\ \A k \in DOMAIN probes : probes[k].raises
    /\ processed_image = Some(Chosen("basic_threshold", 0))

\* C17: for an image that does not decode, preprocessing raises at once: no
\* OCR call is made, no probe, nothing is tried again and no record returned.
C17_UndecodableRaises ==
    ~image.decodable =>
        /\ ocr_calls = 0 /\ probes = <<>> /\ ocr_answers = <<>>
        /\ processed_image = None
        /\ receipt_data = ReceiptData(NoMetadata, <<>>, 0)
        /\ pc \in {"preprocess", call, "done"}
        /\ pc = "done" => outcome = "raised"

\* the call of preprocess_image_advanced with such an image has raised
C17_ImprovedRaised ==
    /\ ~image.decodable
    /\ call = "process_receipt_image"
    /\ pc = "done" /\ outcome = "raised"

(***************************************************************************)
(* The amounts of a line.                                                  *)
(***************************************************************************)
\* the amounts written on a line, from left to right, in cents
AmountsInOrder(line) ==
    [i \in 1..Len(ReFindAll(<<Amount>>, 1, line)) |->
        CentsOf(ReFindAll(<<Amount>>, 1, line)[i])]

\* a quantity pattern matches the line
QuantityMatches(line) ==
    \E k \in 1..Len(enhanced_patterns) :
        SearchFrom(enhanced_patterns[k].segs, line, 1, TRUE) # <<>>

\* both, of each line of this development
WrittenTable ==
    [line \in KnownLines |->
        [amounts |-> AmountsInOrder(line), quantity |-> QuantityMatches(line)]]

\* the rightmost of the amounts of a line that are among the prices taken
Rightmost(line, prices) ==
    Last(SelectSeq(WrittenTable[line].amounts, LAMBDA c : c \in Range(prices)))

\* C18: of a line with several valid prices, the amount taken is the rightmost
\* price of the line, for the total price of an item and for the total, the
\* subtotal and the tax of the metadata, also when a larger price stands to
\* its left.
C18_RightmostPrice ==
    /\ \A n \in 1..Len(Candidates) :
           Len(extract_prices_enhanced(SourceLine(Candidates[n]))) > 1 =>
               Candidates[n].total_price =
                   Rightmost(SourceLine(Candidates[n]),
                             extract_prices_enhanced(SourceLine(Candidates[n])))
    /\ \A fld \in TotalsFields :
           metadata[fld] # None =>
               \E i \in FieldLines(text_data.lines, fld) :
                   metadata[fld] = Some(Rightmost(text_data.lines[i],
                                                  extract_prices_precise(text_data.lines[i])))

\* the line has 9.99 to the left of 5.00, and its item the total price 9.99
C18_LargerPriceTaken ==
    \E n \in 1..Len(final_items) :
        /\ SourceLine(final_items[n]) = "Soap 9.99 5.00"
        /\ WrittenTable["Soap 9.99 5.00"].amounts = <<999, 500>>
        /\ final_items[n].total_price = 999

\* C19: price extraction accepts an amount exactly when it is in
\* [0.01, 9999.99]: the prices of a line are its amounts in that range, so
\* that a line with the only price 1500.00 has a price.
C19_AcceptedRange ==
    \A i \in 1..Len(text_data.lines) :
        Range(extract_prices_enhanced(text_data.lines[i])) =
            {c \in Range(WrittenTable[text_data.lines[i]].amounts) : 1 <= c /\ c <= 999999}

\* a receipt with the line Wine 1500.00, read at full confidence, went through
\* the three classifiers and none has an item of that line
C19_AmountRejected ==
    /\ pc = "metadata"
    /\ \E i \in 1..Len(text_data.lines) :
           /\ text_data.lines[i] = "Wine 1500.00"
           /\ LineConfidences(text_data)[i] = 100
           /\ ~is_noise_line(text_data.lines[i])
           /\ \A n \in 1..Len(Candidates) : Candidates[n].line_number # i - 1

\* C20: the quantity and the unit price of a candidate item are both set or
\* both null: both set when a quantity pattern matched its line, both null
\* otherwise.
C20_QuantityWithUnitPrice ==
    \A n \in 1..Len(Candidates) :
        /\ (Candidates[n].quantity = None) = (Candidates[n].unit_price = None)
        /\ (Candidates[n].quantity # None) = WrittenTable[SourceLine(Candidates[n])].quantity

\* an item of the line 2 oz 4.99 ea has the quantity 2 and no unit price
C20_QuantityAlone ==
    \E n \in 1..Len(Candidates) :
        /\ SourceLine(Candidates[n]) = "2 oz 4.99 ea"
        /\ Candidates[n].quantity = Some("2")
        /\ Candidates[n].unit_price = None

(***************************************************************************)
(* The structural classifier.                                              *)
(***************************************************************************)
\* the price lines left when a leading and a trailing slice are taken from
\* more than five of them
Considered(price_lines) ==
    IF Len(price_lines) > 5 THEN SubSeq(price_lines, 2, Len(price_lines) - 2)
    ELSE price_lines

\* line i of the receipt, taken for itself, gives a structural item
GivesStructuralItem(lines, i) ==
    StructuralLine(i - 1, Len(lines), lines[i], extract_prices_enhanced(lines[i]),
                   extract_item_name_enhanced(lines[i]), <<>>) # <<>>

\* C21: the structural classifier considers every price-bearing line, but for a
\* leading and a trailing slice when there are more of them than the
\* threshold: of a receipt with few price-bearing lines none is left out for
\* its position.
C21_EveryPriceLineConsidered ==
    pc = "combine" =>
        \A i \in 1..Len(text_data.lines) :
            (\E n \in 1..Len(structural_items) : structural_items[n].line_number = i - 1)
            = (/\ i \in Range(Considered(PriceLines(text_data.lines)))
               /\ GivesStructuralItem(text_data.lines, i))

\* the one line of the receipt has a price and would give an item, and the
\* structural classifier has none
C21_FewLinesNoItems ==
    /\ pc = "combine"
    /\ text_data.lines = <<"Milk 2.99">>
    /\ GivesStructuralItem(text_data.lines, 1)
    /\ structural_items = <<>>

(***************************************************************************)
(* What a stage leaves of the structures it was given.                     *)
(***************************************************************************)
\* C22: no stage changes a structure made by an earlier stage: the recognised
\* lines and their confidences stay as they are, and a run of the combiner
\* leaves the candidate items of the three classifiers as it received them.
C22_InputsUnchanged ==
    [][/\ text_data' = text_data
       /\ VoteStep => /\ pattern_items' = pattern_items
                      /\ semantic_items' = semantic_items
                      /\ structural_items' = structural_items]_vars

\* after a run of the combiner the pattern classifier's list holds an item
\* with the confidence of the final item, 0.1 above the one the classifier
\* gave it
C22_CandidateRewritten ==
    /\ runs = 1
    /\ \E n \in 1..Len(pattern_items) :
           LET made == ExtractItemsPatternBased(text_data.lines, LineConfidences(text_data))
           IN  /\ pattern_items[n].confidence = made[n].confidence + AgreementBonus
               /\ \E m \in 1..Len(final_items) : final_items[m] = pattern_items[n]

(***************************************************************************)
(* The classifiers side by side.                                           *)
(***************************************************************************)
\* C23: the classifiers share no state they write: however their turns are
\* interleaved over the same lines, each has at the join the candidate list
\* it gives when run alone, and the combiner runs only after all three have
\* come to their end.
C23_AsWhenRunAlone ==
    /\ [](pc = "combine" =>
            /\ pattern_items =
                   ExtractItemsPatternBased(text_data.lines, LineConfidences(text_data))
            /\ Returned(semantic_items) =
                   ExtractItemsSemantic(text_data.lines, LineConfidences(text_data))
            /\ structural_items =
                   ExtractItemsStructural(text_data.lines, LineConfidences(text_data)))
    /\ [][VoteStep => PatternFinished /\ SemanticFinished /\ StructuralFinished]_vars

\* the structural classifier is through its four lines, with items, while the
\* pattern classifier has not begun and the semantic classifier is midway
C23_Interleaved ==
    /\ pc = "classifiers"
    /\ Len(text_data.lines) = 4
    /\ StructuralFinished /\ structural_items # <<>>
    /\ at.pattern = 1
    /\ at.semantic = 3 /\ semantic_items # <<>>

(***************************************************************************)
(* The merchant.                                                           *)
(***************************************************************************)
\* a line that contains a name of the merchant vocabulary, in whatever case
NamesMerchant(line) ==
    \E k \in 1..Len(merchant_indicators) :
        Contains(StrLower(line), StrLower(merchant_indicators[k]))

\* a line of digits only
Numeric(line) == ReMatch(Cat(<<Bol, Plus(D), Eol>>), line, FALSE)

\* what a reader of the head of a receipt sees in each line, computed once
HeadTable ==
    [line \in MerchantLines |->
        [names   |-> NamesMerchant(line),
         numeric |-> Numeric(line),
         long    |-> Len(LineClean(line)) > 5]]

\* the merchant a receipt of these lines has: the first line of the first five
\* that names a merchant of the vocabulary, or else the first line of the
\* first three that is long enough and is not a number
MerchantOf(lines) ==
    MerchantAt(lines,
               FirstOf({i \in 1..Min(5, Len(lines)) : HeadTable[lines[i]].names}),
               FirstOf({i \in 1..Min(3, Len(lines)) :
                           HeadTable[lines[i]].long /\ ~HeadTable[lines[i]].numeric}))

\* C24: the merchant is the title-cased text of the first of the top lines that
\* contains a name of the vocabulary, even under a line the fallback would
\* take; without such a line it is the first line of minimum length that is
\* not numeric, and it is empty when there is none.
C24_VocabularyFirst ==
    pc = "assemble" => metadata.merchant_name = MerchantOf(text_data.lines)

\* 'CVS' on the first line names a merchant of the vocabulary, and the merchant
\* read is the line under it, by the fallback
C24_VocabularyLineSkipped ==
    /\ pc = "assemble"
    /\ text_data.lines = <<"CVS", "Corner Bakery">>
    /\ HeadTable["CVS"].names
    /\ metadata.merchant_name = "Corner Bakery"

(***************************************************************************)
(* A line that fails.                                                      *)
(***************************************************************************)
\* C25: whatever the lines and the per-line confidences are, also fewer
\* confidences than lines, no line makes extract_items_multi_model raise: the
\* call goes on and the items of the other lines are emitted.
C25_NeverAborts ==
    /\ outcome # "raised"
    /\ runs >= 1 =>
           \A n \in 1..Len(first_items) : first_items[n].line_number < Len(text_data.lines)

\* the list of confidences ends before the line 'Milk 2.99': the pattern
\* classifier has its item and the call has raised in the semantic classifier
C25_ShortListRaised ==
    /\ outcome = "raised"
    /\ text_data.lines = <<"Cashews 3.99", "Milk 2.99">>
    /\ LineConfidences(text_data) = <<100>>
    /\ \E n \in 1..Len(pattern_items) : pattern_items[n].line_number = 1
    /\ runs = 0

(***************************************************************************)
(* Expenses.                                                               *)
(***************************************************************************)
\* the manager has returned its result
Stored == call = "ReceiptExpenseManager.process_receipt_image" /\ outcome = "returned"

\* every row is of the upload of this user
RowsOfUpload ==
    \A n \in 1..Len(database) :
        database[n].source = "receipt_upload" /\ database[n].user_id = user_id

\* a receipt without items and with a positive total has one expense
OneForTotal ==
    (receipt_data.items = <<>> /\ receipt_data.total # None /\ receipt_data.total[1] > 0)
        => Len(database) = 1 /\ database[1].amount = receipt_data.total[1]

\* an item with a total price above zero
PositivePrice(item) == item.total_price \notin {None, Some(0)}

NameReading ==
    [name \in KnownNames |->
        [checked |-> /\ name # ""
                     /\ min_length <= Len(name) /\ Len(name) <= max_length
                     /\ AlphaCount(name) >= min_letters
                     /\ \A k \in 1..Len(required_patterns) :
                            ReSearch(required_patterns[k], name, FALSE),
         words    |-> Range(StrSplit(StrLower(name)))]]

\* line i is a line the pattern classifier makes an item of, if it takes the name
NamedLine(i) ==
    /\ ~is_noise_line(text_data.lines[i])
    /\ extract_prices_enhanced(text_data.lines[i]) # <<>>
    /\ NameReading[extract_item_name_enhanced(text_data.lines[i])].checked
    /\ CalculateEnhancedConfidence(text_data.lines[i],
                                   extract_item_name_enhanced(text_data.lines[i]),
                                   Last(extract_prices_enhanced(text_data.lines[i])),
                                   i - 1, LineConfidences(text_data)) >= Tenths(3)

\* the pattern classifier has an item of line i
PatternItemOf(i) == \E n \in 1..Len(pattern_items) : pattern_items[n].line_number = i - 1

\* C27 as stated: the pattern classifier rejects a name for its words only when
\* all of them are exclusion words; a name with a word that is none, that passes
\* the checks of length and letters, is kept.
C27_OnlySolelyExcluded ==
    pc # "pattern" =>
        \A i \in 1..Len(text_data.lines) :
            NamedLine(i) =>
                (PatternItemOf(i)
                 = ~(NameReading[extract_item_name_enhanced(text_data.lines[i])].words
                        \subseteq exclude_words))

\* C27: the pattern classifier rejects a name for its words when any of them is
\* an exclusion word; a name without such a word, that passes the checks of
\* length and letters, is kept.
C27_AnyExcludedWord ==
    pc # "pattern" =>
        \A i \in 1..Len(text_data.lines) :
            NamedLine(i) =>
                (PatternItemOf(i)
                 = (NameReading[extract_item_name_enhanced(text_data.lines[i])].words
                        \cap exclude_words = {}))

\* 'Gift Card' has the word 'gift', passes the checks and is not kept; 'Candy'
\* under it is
C27_GiftCardRejected ==
    /\ pc = "semantic"
    /\ text_data.lines = <<"Gift Card 25.00", "Candy 1.50">>
    /\ NamedLine(1) /\ NamedLine(2)
    /\ "gift" \in NameReading["Gift Card"].words \ exclude_words
    /\ ~PatternItemOf(1) /\ PatternItemOf(2)

(***************************************************************************)
(* The reconstruction of lines.                                            *)
(***************************************************************************)
\* the tokens above the floor, in their order
Survivors(tokens) == SelectSeq(tokens, LAMBDA t : t.conf > TokenFloor)

\* the tokens above the floor that are not blank, in their order
WordSurvivors(tokens) ==
    SelectSeq(tokens, LAMBDA t : t.conf > TokenFloor /\ StrStrip(t.text) # "")

\* the places where the line index is not the one of the token before
LineStarts(kept) ==
    SortedSeq({i \in 1..Len(kept) : i = 1 \/ kept[i].line_num # kept[i - 1].line_num})

\* the texts of the tokens from place lo to place hi, joined by blanks
JoinedFrom(kept, lo, hi) == StrJoin([j \in 1..(hi - lo + 1) |-> kept[lo + j - 1].text])

\* the lines of these tokens, a new line at each change of the line index
LinesOf(kept) ==
    LET starts == LineStarts(kept)
    IN  [k \in 1..Len(starts) |->
            JoinedFrom(kept, starts[k],
                       IF k < Len(starts) THEN starts[k + 1] - 1 ELSE Len(kept))]

\* the lines have been reconstructed
Reconstructed == call \in ReconstructionCalls /\ pc = "done"

\* C28 as stated: the reconstructed lines are exactly the tokens of confidence
\* above 30, in their order, with a new line exactly where the line index
\* changes between two consecutive surviving tokens.
C28_ExactlySurvivors ==
    Reconstructed => text_data.lines = LinesOf(Survivors(ocr_answers[1].tokens))

\* C28: the reconstructed lines are the tokens of confidence above 30, without
\* the blank ones in ImprovedReceiptProcessor, in their order, with a new line
\* exactly where the line index changes between two consecutive kept tokens;
\* AdvancedReceiptProcessor strips these lines and drops the empty ones.
C28_SurvivorsOfEachProcessor ==
    Reconstructed =>
        text_data.lines =
            IF call = "ImprovedReceiptProcessor.extract_text_with_confidence"
            THEN LinesOf(WordSurvivors(ocr_answers[1].tokens))
            ELSE StrippedLines(LinesOf(Survivors(ocr_answers[1].tokens)))

\* a blank above the floor between two words, on a line of its own, and a word
\* at the floor: ImprovedReceiptProcessor has made one line of the two words
C28_BlankTokenDropped ==
    /\ Reconstructed
    /\ call = "ImprovedReceiptProcessor.extract_text_with_confidence"
    /\ ocr_answers[1].tokens =
           <<[text |-> "Milk", conf |-> 31, line_num |-> 1],
             [text |-> " ", conf |-> 31, line_num |-> 2],
             [text |-> "2.99", conf |-> 31, line_num |-> 1]>>
    /\ text_data.lines = <<"Milk 2.99">>

(***************************************************************************)
(* The agreement of the classifiers.                                       *)
(***************************************************************************)
\* the candidate lists that have an item with the key of this item
ProposedBy(item) ==
    {k \in 1..3 :
        \E n \in 1..Len(<<pattern_items, semantic_items, structural_items>>[k]) :
            KeyOf(<<pattern_items, semantic_items, structural_items>>[k][n]) = KeyOf(item)}

\* the confidences the classifiers gave to the candidates with the key of this item
GivenTo(item) ==
    {Candidates[k].confidence : k \in {j \in 1..Len(Candidates) :
                                            KeyOf(Candidates[j]) = KeyOf(item)}}

\* C29: the combiner, run on the lists the classifiers made, gives an item a
\* confidence above the highest a classifier gave it only if at least two
\* different classifiers proposed it; the candidates of one classifier alone
\* earn no bonus.
C29_BonusNeedsTwoClassifiers ==
    [][(runs = 0 /\ VoteStep) =>
         \A n \in 1..Len(final_items') :
             (\A c \in GivenTo(final_items'[n]) : final_items'[n].confidence > c)
                 => Cardinality(ProposedBy(final_items'[n])) >= 2]_vars

\* 'Milk 2.99' is on two lines and only the pattern classifier has candidates:
\* the one final item has the bonus over the confidence both candidates got
C29_BonusWithinOneClassifier ==
    /\ runs = 1
    /\ text_data.lines = <<"Milk 2.99", "Milk 2.99">>
    /\ semantic_items = <<>> /\ structural_items = <<>>
    /\ Len(ExtractItemsPatternBased(text_data.lines, LineConfidences(text_data))) = 2
    /\ Len(final_items) = 1
    /\ \A made \in Range(ExtractItemsPatternBased(text_data.lines,
                                                   LineConfidences(text_data))) :
           final_items[1].confidence = made.confidence + AgreementBonus

(***************************************************************************)
(* The order of the candidate lists.                                       *)
(***************************************************************************)
\* the orders in which three lists can be supplied
Orders == {o \in [1..3 -> 1..3] : \A j, k \in 1..3 : o[j] = o[k] => j = k}

\* what the combiner returns for these three lists supplied in this order
CombinedIn(lists, o) == EnsembleCombineItems(lists[o[1]], lists[o[2]], lists[o[3]]).items

\* C30: the combiner returns the same items in the same order for every order
\* in which the candidate lists of the three classifiers are supplied.
C30_OrderIndependent ==
    pc = "combine" =>
        \A o \in Orders :
            CombinedIn(<<pattern_items, semantic_items, structural_items>>, o)
            = CombinedIn(<<pattern_items, semantic_items, structural_items>>, <<1, 2, 3>>)

\* the combiner has returned 'Big Item' before 'ea', both at 0.4; for the lists of
\* the semantic and the pattern classifier, as they were made, in the other
\* order it returns 'ea' before 'Big Item'
C30_TieFollowsListOrder ==
    /\ runs = 1
    /\ text_data.lines = <<"2 oz 4.99 ea", "Big Item 600.00", "Big Item 600.00">>
    /\ structural_items = <<>>
    /\ [n \in 1..Len(final_items) |-> final_items[n].name] = <<"Big Item", "ea">>
    /\ final_items[1].confidence = final_items[2].confidence
    /\ LET made == <<ExtractItemsPatternBased(text_data.lines, LineConfidences(text_data)),
                     ExtractItemsSemantic(text_data.lines, LineConfidences(text_data)).items,
                     <<>> >>
       IN  /\ CombinedIn(made, <<1, 2, 3>>) = final_items
           /\ CombinedIn(made, <<2, 1, 3>>) = <<final_items[2], final_items[1]>>

====
